---- MODULE Spec2Model ----
(***************************************************************************)
(* Model of the workflow execution engine of the multi-agent orchestration *)
(* repository: src/services/workflow_service/workflow_engine.py together   *)
(* with the execution store of workflow_registry.py and the record types   *)
(* of models.py.                                                           *)
(*                                                                         *)
(* One asyncio task runs execute_workflow for one execution.  The event    *)
(* loop is single threaded, so a task keeps the processor between two of   *)
(* its suspension points (the pause sleep, the agent call, the retry       *)
(* backoff); other tasks and the controller operations run only while      *)
(* every task is suspended.  The registry calls use the synchronous redis  *)
(* client and are therefore no suspension points.                          *)
(***************************************************************************)
EXTENDS Integers, Sequences, FiniteSets, TLC

\* ------------------------------------------------------------------ bounds
MaxSteps == 2
MaxRetry == 2
MaxCreates == 12
MaxRequests == 3

\* ------------------------------------------------------- program constants
KeepLast == 10

ExecIds == {"e1", "e2"}
Absent == "<absent>"
CtxKeys == {"flag", "out"}
FlagCondition == "${flag} == true"
OutCondition == "${out} == 0"

PENDING == "pending"
RUNNING == "running"
COMPLETED == "completed"
FAILED == "failed"
SKIPPED == "skipped"
CANCELLED == "cancelled"

StepStatus == {PENDING, RUNNING, COMPLETED, FAILED, SKIPPED}
WorkflowStatus == {PENDING, RUNNING, COMPLETED, FAILED, CANCELLED}
TerminalStatus == {COMPLETED, FAILED, SKIPPED}

CheckpointType == {"workflow_start", "step_start", "step_complete"}

VARIABLES
    wf,                  \* the WorkflowDefinition being executed
    execs,               \* the execution ids that exist in this behaviour
    store,               \* registry: execution id -> <<>> or <<stored record>>
    ex,                  \* the WorkflowExecution object each task holds
    task,                \* locals and position of each execute_workflow task
    running_executions,  \* WorkflowEngine.running_executions (its keys)
    paused_executions,   \* WorkflowEngine.paused_executions
    checkpoints,         \* WorkflowEngine.checkpoints
    nextCp,              \* next fresh checkpoint id (uuid4 in the code)
    created,             \* history: every checkpoint ever created, per execution
    calls,               \* agent invocations sent so far, per execution and step
    now,                 \* the clock read by datetime.utcnow()
    ret,                 \* what the last call of a controller operation returned
    heap,                \* the dict objects nested in contexts, by object identity
    pure,                \* a call of one of the engine's pure helpers: arguments, result
    agents,              \* agent service: the registry's agent record, the requests in flight
    messages             \* communication service: the queue manager's Redis keys and tasks

vars == <<wf, execs, store, ex, task, running_executions, paused_executions,
          checkpoints, nextCp, created, calls, now, ret, heap, pure, agents, messages>>

\* ------------------------------------------------------------ record types
EmptyContext == [k \in CtxKeys |-> Absent]

NoError == [kind |-> "none", step |-> 0]

\* models.py WorkflowStep; step ids are the positions 1..n in the definition,
\* every step maps its input "text" from "out" and its output "result" to the
\* context key "out" (or to the dotted path "out.value", see NestedOutput).
WorkflowStep(deps, retry, cond) ==
    [depends_on |-> deps, retry_count |-> retry, condition |-> cond,
     output_mapping |-> "out"]

\* models.py WorkflowDefinition
WorkflowDefinition(steps) == [steps |-> steps]

\* models.py StepExecution
StepExecution(step_id) ==
    [step_id |-> step_id, status |-> PENDING, start_time |-> 0, end_time |-> 0,
     input_data |-> Absent, output_data |-> Absent, error_message |-> "none",
     agent_id |-> "none", retry_attempt |-> 0]

\* models.py WorkflowExecution
WorkflowExecution(input) ==
    [status |-> PENDING, start_time |-> 0, end_time |-> 0, input_data |-> input,
     context |-> EmptyContext, step_executions |-> <<>>, error_message |-> NoError]

\* the answer of a controller call as its caller sees it: the operation, the id
\* and checkpoint id it was called with, what it returned, and the steps whose
\* rollback handling (_handle_step_rollback) the call ran, in order
Unobserved == [op |-> "unobserved", id |-> "none", arg |-> 0, result |-> FALSE,
               handled |-> <<>>]

NoCall == [op |-> "none", id |-> "none", arg |-> 0, result |-> FALSE, handled |-> <<>>]

\* the next value of ret; a behaviour that starts Unobserved keeps no record of
\* the answers
Return(op, id, arg, result) ==
    IF ret = Unobserved THEN ret
    ELSE [op |-> op, id |-> id, arg |-> arg, result |-> result, handled |-> <<>>]

\* the local agent_response of _execute_step_enhanced while it holds nothing
NoResponse == [raised |-> FALSE, success |-> FALSE, output_data |-> "null",
               error_message |-> "none", outcome |-> "none"]

\* no pure helper is under examination
NoPure == [fn |-> "none"]

\* the agent service and the communication service are not running
NoAgents == [service |-> "none"]

NoMessages == [service |-> "none"]

\* the locals of execute_workflow and the position of its task; attempted is
\* history: the steps handed to _execute_step_enhanced in the current scan
NewTask ==
    [pc |-> "none", completed_steps |-> {}, iteration |-> 0, idx |-> 0,
     progress_made |-> FALSE, cur |-> 0, to_store |-> FALSE,
     agent_response |-> NoResponse, attempted |-> <<>>]

\* ----------------------------------------------------------- pure helpers
Last(s, n) == IF Len(s) <= n THEN s ELSE SubSeq(s, Len(s) - n + 1, Len(s))

StepIds(def) == 1..Len(def.steps)

\* workflow_registry.py get_workflow_execution: the stored record, or None when
\* the key is absent or the redis call raises (ok = FALSE)
get_workflow_execution(st, e, ok) == IF ok THEN st[e] ELSE <<>>

\* a scheduler that does not look at depends_on
dependencies_ignored(step, completed_steps) == TRUE

\* workflow_engine.py _dependencies_satisfied
dependencies_satisfied(step, completed_steps) ==
    \A dep_id \in step.depends_on : dep_id \in completed_steps

\* workflow_engine.py _substitute_variables on the text "${flag}"
substitute_flag(context) ==
    IF context["flag"] = Absent THEN "MISSING(flag)" ELSE context["flag"]

\* workflow_engine.py _resolve_mapping_value on one token of a condition: the
\* boolean literals, then a context key, then the literal text
resolve_token(tok, context) ==
    IF tok \in {"true", "True"} THEN "True"
    ELSE IF tok \in {"false", "False"} THEN "False"
    ELSE IF tok \in CtxKeys /\ context[tok] # Absent THEN context[tok]
    ELSE tok

\* workflow_engine.py _substitute_variables on the text "${out}"
substitute_out(context) ==
    IF context["out"] = Absent THEN "MISSING(out)" ELSE context["out"]

\* workflow_engine.py _evaluate_condition on "${flag} == true" and "${out} == 0"
evaluate_condition(condition, context) ==
    IF condition = FlagCondition
    THEN resolve_token(substitute_flag(context), context) = resolve_token("true", context)
    ELSE IF condition = OutCondition
    THEN resolve_token(substitute_out(context), context) = resolve_token("0", context)
    ELSE TRUE

\* workflow_engine.py _map_step_input for input_mapping {"text": "out"}
map_step_input(context) == IF context["out"] # Absent THEN context["out"] ELSE "out"

\* A dict nested in a context is an object of the heap: the context holds a
\* reference to it, and two contexts holding the same reference share the dict.
\* Of a nested dict the model keeps the entry "value" (Absent: no such entry).
Ref(k) == "@" \o ToString(k)

IsRef(v, h) == \E k \in DOMAIN h : v = Ref(k)

RefIndex(v, h) == CHOOSE k \in DOMAIN h : v = Ref(k)

Contents == {Absent, "0"} \cup {ToString(i) : i \in 1..MaxSteps}

\* workflow_registry.py line 124, json.dumps: the text of a nested dict
MapText(c) == "{value:" \o c \o "}"

MapTexts == {MapText(c) : c \in Contents}

IsMapText(v) == v \in MapTexts

MapContent(v) == CHOOSE c \in Contents : v = MapText(c)

\* json.dumps of a context: every nested dict is written out
Serialize(context, h) ==
    [k \in CtxKeys |-> IF IsRef(context[k], h) THEN MapText(h[RefIndex(context[k], h)])
                                                ELSE context[k]]

\* workflow_registry.py store_workflow_execution, lines 110-124: the JSON text
SerializeExecution(rec, h) == [rec EXCEPT !.context = Serialize(rec.context, h)]

\* workflow_registry.py line 153, json.loads: the context read back refers to a
\* new dict for the nested dict of the text, allocated by Allocate
Deserialize(context, h) ==
    [context EXCEPT !["out"] = IF IsMapText(@) THEN Ref(Len(h) + 1) ELSE @]

Allocate(context, h) ==
    IF IsMapText(context["out"]) THEN Append(h, MapContent(context["out"])) ELSE h

\* an output mapping that replaces the context by the mapped output
map_step_output_replacing(path, output, context, h) == [EmptyContext EXCEPT !["out"] = output]

\* workflow_engine.py _map_step_output and _set_nested_value, the context after
\* the write: a plain key is assigned; for the path "out.value" the context keeps
\* the dict it has under "out", or gets a new one when there is none
map_step_output(path, output, context, h) ==
    IF path = "out" THEN [context EXCEPT !["out"] = output]
    ELSE IF IsRef(context["out"], h) THEN context
    ELSE [context EXCEPT !["out"] = Ref(Len(h) + 1)]

\* _set_nested_value, lines 503-515, the heap after the write: the dict under
\* "out" is changed in place
set_nested_value(path, output, context, h) ==
    IF path = "out" THEN h
    ELSE IF IsRef(context["out"], h) THEN [h EXCEPT ![RefIndex(context["out"], h)] = output]
    ELSE Append(h, output)

\* dict.update(input_data)
context_update(context, input) ==
    [k \in CtxKeys |-> IF input[k] # Absent THEN input[k] ELSE context[k]]

\* a snapshot that copies the context of the execution the task holds
SnapshotOfLiveContext(e, stored) == ex[e].context

\* lines 153 and 168: context.copy() of the execution read back from the registry
SnapshotContext(e, stored) == Deserialize(stored, heap)

\* a checkpoint that is recorded as step_start whatever kind was asked for
CheckpointOfOneKind(id, e, type, step_id, rec) ==
    [checkpoint_id |-> id, execution_id |-> e, checkpoint_type |-> "step_start",
     step_id |-> step_id, context_snapshot |-> Deserialize(rec.context, heap),
     step_states |-> [i \in DOMAIN rec.step_executions |-> rec.step_executions[i].status]]

\* the WorkflowCheckpoint built by create_checkpoint from the record it read
WorkflowCheckpoint(id, e, type, step_id, rec) ==
    [checkpoint_id |-> id, execution_id |-> e, checkpoint_type |-> type,
     step_id |-> step_id, context_snapshot |-> SnapshotContext(e, rec.context),
     step_states |-> [i \in DOMAIN rec.step_executions |-> rec.step_executions[i].status]]

\* one checkpoint list for the whole engine instead of one per execution id
StoreCheckpointShared(cps, e, cp) ==
    [o \in DOMAIN cps |-> Last(Append(cps[o], cp), KeepLast)]

\* a trim that keeps the first 10 entries ([:10]) instead of the last 10
StoreCheckpointKeepFirst(cps, e, cp) ==
    [cps EXCEPT ![e] = SubSeq(Append(cps[e], cp), 1,
                              IF Len(cps[e]) + 1 <= KeepLast THEN Len(cps[e]) + 1 ELSE KeepLast)]

\* workflow_engine.py create_checkpoint, lines 172-179: append, keep the last 10
StoreCheckpoint(cps, e, cp) == [cps EXCEPT ![e] = Last(Append(cps[e], cp), KeepLast)]

\* create_checkpoint raises when the registry returns no record
CheckpointRaises(e, ok) == get_workflow_execution(store, e, ok) = <<>>

create_checkpoint(e, type, step_id, ok) ==
    /\ ~CheckpointRaises(e, ok)
    /\ checkpoints' = StoreCheckpoint(checkpoints, e,
           WorkflowCheckpoint(nextCp, e, type, step_id,
                              get_workflow_execution(store, e, ok)[1]))
    /\ created' = [created EXCEPT ![e] = Append(@,
           WorkflowCheckpoint(nextCp, e, type, step_id,
                              get_workflow_execution(store, e, ok)[1]))]
    /\ nextCp' = nextCp + 1
    /\ heap' = Allocate(get_workflow_execution(store, e, ok)[1].context, heap)

\* ------------------------------------------------------------- scheduling
SuspensionPoints == {"none", "new", "created", "paused_sleep", "agent_call", "backoff",
                     "done", "cancelled"}

\* a task is suspended at one of these points; the background task of the route
\* goes from the return of execute_workflow to the store without suspending
Suspended(e) == task[e].pc \in SuspensionPoints /\ ~(task[e].pc = "done" /\ task[e].to_store)

\* a controller operation returns to its caller before the event loop runs
\* anything else: no answer is waiting to be read
Answered == ret \in {NoCall, Unobserved}

\* the task of e may take its next step: no other task is between two suspension points
MayRun(e) == e \in execs /\ Answered /\ \A o \in execs \ {e} : Suspended(o)

Quiescent == Answered /\ \A e \in execs : Suspended(e)

\* the caller of a controller operation reads the answer
ReadAnswer ==
    /\ ~Answered
    /\ ret' = NoCall
    /\ UNCHANGED <<heap, wf, pure, execs, agents, messages, store, ex, task,
                   running_executions, paused_executions, checkpoints, nextCp, created,
                   calls, now>>

CurStep(e) == wf.steps[task[e].cur]
CurExec(e) == ex[e].step_executions[task[e].cur]

\* ------------------------------------------------- the caller of the engine
\* routes/workflows.py lines 117-124: the execution is created PENDING and handed
\* to the store, whose failure (ok = FALSE) is logged and ignored
CreateExecution(e) ==
    /\ e \in execs /\ Quiescent
    /\ task[e].pc = "none"
    /\ store[e] = <<>>
    /\ \E ok \in BOOLEAN :
         store' = [store EXCEPT ![e] = IF ok THEN <<SerializeExecution(ex[e], heap)>>
                                              ELSE <<>>]
    /\ task' = [task EXCEPT ![e].pc = "new"]
    /\ UNCHANGED <<heap, ret, wf, pure, execs, agents, messages, ex, running_executions,
                   paused_executions, checkpoints, nextCp, created, calls, now>>

\* workflow_engine.py start_workflow_execution
start_workflow_execution(e) ==
    /\ e \in execs /\ Quiescent
    /\ task[e].pc = "new"
    /\ task' = [task EXCEPT ![e].pc = "created"]
    /\ running_executions' = running_executions \cup {e}
    /\ UNCHANGED <<heap, ret, wf, pure, execs, agents, messages, store, ex,
                   paused_executions, checkpoints, nextCp, created, calls, now>>

\* ------------------------------------------------------- execute_workflow
\* lines 289-293: the handler of execute_workflow
WorkflowExcept(e, msg) ==
    /\ ex' = [ex EXCEPT ![e].status = FAILED,
                        ![e].error_message = [kind |-> msg, step |-> 0],
                        ![e].end_time = now]
    /\ now' = now + 1
    /\ task' = [task EXCEPT ![e].pc = "done"]

\* line 224: the workflow_start checkpoint
WorkflowStartCheckpoint(e) ==
    /\ MayRun(e)
    /\ task[e].pc = "created"
    /\ \E ok \in BOOLEAN :
         IF CheckpointRaises(e, ok)
         THEN /\ WorkflowExcept(e, "not_found")
              /\ UNCHANGED <<checkpoints, nextCp, created, heap>>
         ELSE /\ create_checkpoint(e, "workflow_start", 0, ok)
              /\ task' = [task EXCEPT ![e].pc = "init"]
              /\ UNCHANGED <<ex, now>>
    /\ UNCHANGED <<ret, wf, pure, execs, agents, messages, store, running_executions,
                   paused_executions, calls>>

\* lines 227-244
WorkflowInit(e) ==
    /\ MayRun(e)
    /\ task[e].pc = "init"
    /\ ex' = [ex EXCEPT ![e].status = RUNNING,
                        ![e].start_time = now,
                        ![e].step_executions = [i \in StepIds(wf) |-> StepExecution(i)],
                        ![e].context = context_update(ex[e].context, ex[e].input_data)]
    /\ now' = now + 1
    /\ task' = [task EXCEPT ![e].pc = "loop", ![e].completed_steps = {},
                            ![e].iteration = 0]
    /\ UNCHANGED <<heap, ret, wf, pure, execs, agents, messages, store, running_executions,
                   paused_executions, checkpoints, nextCp, created, calls>>

\* lines 246-248: the head of the while loop
LoopHead(e) ==
    /\ MayRun(e)
    /\ task[e].pc = "loop"
    /\ IF /\ Cardinality(task[e].completed_steps) < Len(wf.steps)
          /\ task[e].iteration < Len(wf.steps) * 2
       THEN task' = [task EXCEPT ![e].pc = "for",
                                 ![e].iteration = task[e].iteration + 1,
                                 ![e].progress_made = FALSE,
                                 ![e].idx = 1,
                                 ![e].attempted = <<>>]
       ELSE task' = [task EXCEPT ![e].pc = "finalize"]
    /\ UNCHANGED <<heap, ret, wf, pure, execs, agents, messages, store, ex,
                   running_executions, paused_executions, checkpoints, nextCp, created,
                   calls, now>>

\* lines 250-260: one turn of the for loop up to the call of _execute_step_enhanced
ForStep(e) ==
    /\ MayRun(e)
    /\ task[e].pc = "for"
    /\ LET i == task[e].idx IN
         IF i > Len(wf.steps)
         THEN task' = [task EXCEPT ![e].pc = "endpass"]
         ELSE IF /\ i \notin task[e].completed_steps
                 /\ dependencies_satisfied(wf.steps[i], task[e].completed_steps)
                 /\ ex[e].step_executions[i].status = PENDING
              THEN task' = [task EXCEPT ![e].pc = "pause_check", ![e].cur = i,
                                        ![e].attempted = Append(@, i)]
              ELSE task' = [task EXCEPT ![e].idx = i + 1]
    /\ UNCHANGED <<heap, ret, wf, pure, execs, agents, messages, store, ex,
                   running_executions, paused_executions, checkpoints, nextCp, created,
                   calls, now>>

\* ------------------------------------------------- _execute_step_enhanced
SetStep(e, i, rec) == [ex EXCEPT ![e].step_executions[i] = rec]

\* a step that starts whether or not the execution is paused
PauseCheckSkipped(e) ==
    /\ MayRun(e)
    /\ task[e].pc = "pause_check"
    /\ task' = [task EXCEPT ![e].pc = "cp_start"]
    /\ UNCHANGED <<heap, ret, wf, pure, execs, agents, messages, store, ex,
                   running_executions, paused_executions, checkpoints, nextCp, created,
                   calls, now>>

\* lines 304-307: the pause check; a paused execution goes to sleep
PauseCheck(e) ==
    /\ MayRun(e)
    /\ task[e].pc = "pause_check"
    /\ task' = [task EXCEPT ![e].pc =
                   IF e \in paused_executions THEN "paused_sleep" ELSE "cp_start"]
    /\ UNCHANGED <<heap, ret, wf, pure, execs, agents, messages, store, ex,
                   running_executions, paused_executions, checkpoints, nextCp, created,
                   calls, now>>

\* lines 306-307: the sleeping task finds the execution no longer paused
PauseWake(e) ==
    /\ MayRun(e)
    /\ task[e].pc = "paused_sleep"
    /\ e \notin paused_executions
    /\ task' = [task EXCEPT ![e].pc = "cp_start"]
    /\ UNCHANGED <<heap, ret, wf, pure, execs, agents, messages, store, ex,
                   running_executions, paused_executions, checkpoints, nextCp, created,
                   calls, now>>

\* lines 310-314: the step_start checkpoint, outside the try of the step: when it
\* raises, the exception reaches the handler of execute_workflow
StepStartCheckpoint(e) ==
    /\ MayRun(e)
    /\ task[e].pc = "cp_start"
    /\ \E ok \in BOOLEAN :
         IF CheckpointRaises(e, ok)
         THEN /\ WorkflowExcept(e, "not_found")
              /\ UNCHANGED <<checkpoints, nextCp, created, heap>>
         ELSE /\ create_checkpoint(e, "step_start", task[e].cur, ok)
              /\ task' = [task EXCEPT ![e].pc = "set_running"]
              /\ UNCHANGED <<ex, now>>
    /\ UNCHANGED <<ret, wf, pure, execs, agents, messages, store, running_executions,
                   paused_executions, calls>>

\* lines 317-318
SetRunning(e) ==
    /\ MayRun(e)
    /\ task[e].pc = "set_running"
    /\ ex' = SetStep(e, task[e].cur,
                     [CurExec(e) EXCEPT !.status = RUNNING, !.start_time = now])
    /\ now' = now + 1
    /\ task' = [task EXCEPT ![e].pc = "condition"]
    /\ UNCHANGED <<heap, ret, wf, pure, execs, agents, messages, store, running_executions,
                   paused_executions, checkpoints, nextCp, created, calls>>

\* a step that runs whatever its condition says
StepIsNeverSkipped(step, context) == FALSE

\* line 321
StepIsSkipped(step, context) ==
    step.condition # "none" /\ ~evaluate_condition(step.condition, context)

\* lines 321-332: the condition; a skipped step returns through the finally (two
\* clock reads), any other step resolves its input and sends the agent request
CheckCondition(e) ==
    /\ MayRun(e)
    /\ task[e].pc = "condition"
    /\ IF StepIsSkipped(CurStep(e), ex[e].context)
       THEN /\ ex' = SetStep(e, task[e].cur,
                        [CurExec(e) EXCEPT !.status = SKIPPED, !.end_time = now + 1])
            /\ now' = now + 2
            /\ task' = [task EXCEPT ![e].pc = "after_step"]
            /\ calls' = calls
       ELSE /\ ex' = SetStep(e, task[e].cur,
                        [CurExec(e) EXCEPT !.input_data =
                                            map_step_input(Serialize(ex[e].context, heap))])
            /\ now' = now
            /\ task' = [task EXCEPT ![e].pc = "agent_call"]
            /\ calls' = [calls EXCEPT ![e][task[e].cur] = @ + 1]
    /\ UNCHANGED <<heap, ret, wf, pure, execs, agents, messages, store, running_executions,
                   paused_executions, checkpoints, nextCp, created>>

\* how the POST of _call_agent ends: a response with success true, with
\* output_data or with output_data null (models.py AgentResponse.output_data is
\* optional); a response with success false; no response within the timeout; a
\* response with an error status; a failure of the transport
AgentResponses == {"ok", "ok_null", "fail", "timeout", "http_status", "transport"}

\* a result that never carries a message
NoMessage(outcome) == "none"

\* the message of the result of a call that did not succeed: "Agent call timed
\* out", "HTTP <status>: <body>", str(e), or the message of the agent; of the
\* text the model keeps that there is one
ErrorMessage(outcome) == IF outcome \in {"ok", "ok_null"} THEN "none" ELSE "agent_error"

\* a _call_agent that lets every error of the call through to its caller
call_agent_raising(outcome) ==
    [raised |-> outcome \in {"timeout", "http_status", "transport"},
     success |-> outcome \in {"ok", "ok_null"},
     output_data |-> IF outcome = "ok" THEN "data" ELSE "null",
     error_message |-> IF outcome = "fail" THEN "agent_error" ELSE "none",
     outcome |-> outcome]

\* workflow_engine.py _call_agent: the dict it returns; every error of the call
\* is caught and becomes a result with success false and a message
_call_agent(outcome) ==
    [raised |-> FALSE,
     success |-> outcome \in {"ok", "ok_null"},
     output_data |-> IF outcome = "ok" THEN "data" ELSE "null",
     error_message |-> ErrorMessage(outcome),
     outcome |-> outcome]

\* lines 332-340 and 351-352: the agent call returns
AgentReturn(e) ==
    /\ MayRun(e)
    /\ task[e].pc = "agent_call"
    /\ \E r \in AgentResponses :
         LET agent_response == _call_agent(r) IN
         CASE agent_response.raised ->
                \* the exception reaches the handler of the step
                /\ ex' = ex
                /\ task' = [task EXCEPT ![e].pc = "step_except",
                                        ![e].agent_response = agent_response]
                /\ heap' = heap
           [] ~agent_response.raised /\ agent_response.success
                                     /\ agent_response.output_data # "null" ->
                /\ ex' = [SetStep(e, task[e].cur,
                            [CurExec(e) EXCEPT !.status = COMPLETED,
                                               !.output_data = ToString(task[e].cur),
                                               !.agent_id = "agent"])
                          EXCEPT ![e].context =
                              map_step_output(CurStep(e).output_mapping,
                                              ToString(task[e].cur), ex[e].context, heap)]
                /\ heap' = set_nested_value(CurStep(e).output_mapping,
                                            ToString(task[e].cur), ex[e].context, heap)
                /\ task' = [task EXCEPT ![e].pc = "cp_complete",
                                        ![e].agent_response = agent_response]
           [] ~agent_response.raised /\ agent_response.success
                                     /\ agent_response.output_data = "null" ->
                \* _map_step_output raises TypeError on the null output
                /\ ex' = SetStep(e, task[e].cur,
                            [CurExec(e) EXCEPT !.status = COMPLETED, !.agent_id = "agent"])
                /\ task' = [task EXCEPT ![e].pc = "step_except",
                                        ![e].agent_response = agent_response]
                /\ heap' = heap
           [] ~agent_response.raised /\ ~agent_response.success ->
                /\ ex' = SetStep(e, task[e].cur,
                            [CurExec(e) EXCEPT !.status = FAILED,
                                               !.error_message = agent_response.error_message])
                /\ task' = [task EXCEPT ![e].pc = "retry",
                                        ![e].agent_response = agent_response]
                /\ heap' = heap
    /\ UNCHANGED <<ret, wf, pure, execs, agents, messages, store, running_executions,
                   paused_executions, checkpoints, nextCp, created, calls, now>>

\* lines 343-347 and 369: the step_complete checkpoint, inside the try of the step
StepCompleteCheckpoint(e) ==
    /\ MayRun(e)
    /\ task[e].pc = "cp_complete"
    /\ \E ok \in BOOLEAN :
         IF CheckpointRaises(e, ok)
         THEN /\ task' = [task EXCEPT ![e].pc = "step_except",
                                      ![e].agent_response = NoResponse]
              /\ UNCHANGED <<checkpoints, nextCp, created, ex, now, heap>>
         ELSE /\ create_checkpoint(e, "step_complete", task[e].cur, ok)
              /\ ex' = SetStep(e, task[e].cur, [CurExec(e) EXCEPT !.end_time = now])
              /\ now' = now + 1
              /\ task' = [task EXCEPT ![e].pc = "after_step",
                                      ![e].agent_response = NoResponse]
    /\ UNCHANGED <<ret, wf, pure, execs, agents, messages, store, running_executions,
                   paused_executions, calls>>

\* lines 363-369: the handler of the step, then the finally
StepExcept(e) ==
    /\ MayRun(e)
    /\ task[e].pc = "step_except"
    /\ ex' = SetStep(e, task[e].cur,
                     [CurExec(e) EXCEPT !.status = FAILED,
                                        !.error_message = "exception",
                                        !.end_time = now])
    /\ now' = now + 1
    /\ task' = [task EXCEPT ![e].pc = "after_step", ![e].agent_response = NoResponse]
    /\ UNCHANGED <<heap, ret, wf, pure, execs, agents, messages, store, running_executions,
                   paused_executions, checkpoints, nextCp, created, calls>>

\* the retry test written with <= instead of <
MayRetryOnceMore(step_execution, step) == step_execution.retry_attempt <= step.retry_count

\* line 355
MayRetry(step_execution, step) == step_execution.retry_attempt < step.retry_count

\* lines 355-361 and 369: the retry decision; a retried step sleeps the backoff
RetryLogic(e) ==
    /\ MayRun(e)
    /\ task[e].pc = "retry"
    /\ IF MayRetry(CurExec(e), CurStep(e))
       THEN /\ ex' = SetStep(e, task[e].cur,
                        [CurExec(e) EXCEPT !.retry_attempt = @ + 1, !.status = PENDING])
            /\ now' = now
            /\ task' = [task EXCEPT ![e].pc = "backoff", ![e].agent_response = NoResponse]
       ELSE /\ ex' = SetStep(e, task[e].cur, [CurExec(e) EXCEPT !.end_time = now])
            /\ now' = now + 1
            /\ task' = [task EXCEPT ![e].pc = "after_step",
                                    ![e].agent_response = NoResponse]
    /\ UNCHANGED <<heap, ret, wf, pure, execs, agents, messages, store, running_executions,
                   paused_executions, checkpoints, nextCp, created, calls>>

\* lines 359 and 369: the backoff sleep ends, the finally records the end time
BackoffDone(e) ==
    /\ MayRun(e)
    /\ task[e].pc = "backoff"
    /\ ex' = SetStep(e, task[e].cur, [CurExec(e) EXCEPT !.end_time = now])
    /\ now' = now + 1
    /\ task' = [task EXCEPT ![e].pc = "after_step"]
    /\ UNCHANGED <<heap, ret, wf, pure, execs, agents, messages, store, running_executions,
                   paused_executions, checkpoints, nextCp, created, calls>>

\* ------------------------------------------- execute_workflow, continued
\* a scheduler that marks a step completed after every attempt, retried or not
CountsAnyAttempt(status) == status \in {COMPLETED, FAILED, SKIPPED, PENDING}

\* line 262
CountsAsCompleted(status) == status \in {COMPLETED, FAILED, SKIPPED}

\* the exhaustion test written with > instead of >=
FailsWorkflowLate(step_execution, step) ==
    step_execution.status = FAILED /\ step_execution.retry_attempt > step.retry_count

\* line 267
FailsWorkflow(step_execution, step) ==
    step_execution.status = FAILED /\ step_execution.retry_attempt >= step.retry_count

\* a scan that starts over from the first step after every attempt
ScanRestart(i) == 1

\* line 250: the for loop goes on with the next step of the definition
ScanNext(i) == i + 1

\* lines 262-270: back in the scheduler after _execute_step_enhanced returned
AfterStep(e) ==
    /\ MayRun(e)
    /\ task[e].pc = "after_step"
    /\ IF CountsAsCompleted(CurExec(e).status)
       THEN IF FailsWorkflow(CurExec(e), CurStep(e))
            THEN /\ ex' = [ex EXCEPT ![e].status = FAILED,
                                     ![e].error_message =
                                         [kind |-> "step_failed", step |-> task[e].cur]]
                 /\ task' = [task EXCEPT ![e].pc = "endpass",
                                ![e].completed_steps = @ \cup {task[e].cur},
                                ![e].progress_made = TRUE]
            ELSE /\ ex' = ex
                 /\ task' = [task EXCEPT ![e].pc = "for",
                                ![e].idx = ScanNext(@),
                                ![e].completed_steps = @ \cup {task[e].cur},
                                ![e].progress_made = TRUE]
       ELSE /\ ex' = ex
            /\ task' = [task EXCEPT ![e].pc = "for", ![e].idx = ScanNext(@)]
    /\ UNCHANGED <<heap, ret, wf, pure, execs, agents, messages, store, running_executions,
                   paused_executions, checkpoints, nextCp, created, calls, now>>

\* a scheduler that never gives up on a scan without progress
NeverStalled(progress_made) == FALSE

\* line 275
Stalled(progress_made) == ~progress_made

\* lines 272-280: the end of one scan
EndPass(e) ==
    /\ MayRun(e)
    /\ task[e].pc = "endpass"
    /\ IF ex[e].status = FAILED
       THEN /\ ex' = ex
            /\ task' = [task EXCEPT ![e].pc = "finalize"]
       ELSE IF Stalled(task[e].progress_made)
            THEN /\ ex' = [ex EXCEPT ![e].status = FAILED,
                                     ![e].error_message = [kind |-> "circular", step |-> 0]]
                 /\ task' = [task EXCEPT ![e].pc = "finalize"]
            ELSE /\ ex' = ex
                 /\ task' = [task EXCEPT ![e].pc = "loop"]
    /\ UNCHANGED <<heap, ret, wf, pure, execs, agents, messages, store, running_executions,
                   paused_executions, checkpoints, nextCp, created, calls, now>>

\* a finalisation that records the end time and forgets the status
FinalizeLeavesStatus(e) ==
    /\ MayRun(e)
    /\ task[e].pc = "finalize"
    /\ ex' = [ex EXCEPT ![e].end_time = now]
    /\ now' = now + 1
    /\ task' = [task EXCEPT ![e].pc = "done"]
    /\ UNCHANGED <<heap, ret, wf, pure, execs, agents, messages, store, running_executions,
                   paused_executions, checkpoints, nextCp, created, calls>>

\* lines 283-286 and 295
Finalize(e) ==
    /\ MayRun(e)
    /\ task[e].pc = "finalize"
    /\ ex' = [ex EXCEPT ![e].status = IF @ = RUNNING THEN COMPLETED ELSE @,
                        ![e].end_time = now]
    /\ now' = now + 1
    /\ task' = [task EXCEPT ![e].pc = "done"]
    /\ UNCHANGED <<heap, ret, wf, pure, execs, agents, messages, store, running_executions,
                   paused_executions, checkpoints, nextCp, created, calls>>

\* ------------------------------------------------- the controller operations
\* a pause that accepts every id
pause_anything(e) ==
    /\ e \in execs /\ Quiescent
    /\ paused_executions' = paused_executions \cup {e}
    /\ ret' = Return("pause_workflow", e, 0, TRUE)
    /\ UNCHANGED <<heap, wf, pure, execs, agents, messages, store, ex, task,
                   running_executions, checkpoints, nextCp, created, calls, now>>

\* workflow_engine.py pause_workflow: False for an id that is not registered,
\* otherwise the id joins the paused set (set.add: nothing changes when it is there)
pause_workflow(e) ==
    /\ e \in execs /\ Quiescent
    /\ IF e \in running_executions
       THEN /\ paused_executions' = paused_executions \cup {e}
            /\ ret' = Return("pause_workflow", e, 0, TRUE)
       ELSE /\ paused_executions' = paused_executions
            /\ ret' = Return("pause_workflow", e, 0, FALSE)
    /\ UNCHANGED <<heap, wf, pure, execs, agents, messages, store, ex, task,
                   running_executions, checkpoints, nextCp, created, calls, now>>

\* workflow_engine.py resume_workflow: False for an id that is not paused
resume_workflow(e) ==
    /\ e \in execs /\ Quiescent
    /\ IF e \in paused_executions
       THEN /\ paused_executions' = paused_executions \ {e}
            /\ ret' = Return("resume_workflow", e, 0, TRUE)
       ELSE /\ paused_executions' = paused_executions
            /\ ret' = Return("resume_workflow", e, 0, FALSE)
    /\ UNCHANGED <<heap, wf, pure, execs, agents, messages, store, ex, task,
                   running_executions, checkpoints, nextCp, created, calls, now>>

\* a cancel that forgets the task: the id is deregistered, the task runs on
cancel_deregisters_only(e) ==
    /\ e \in execs /\ Quiescent
    /\ IF e \in running_executions
       THEN /\ running_executions' = running_executions \ {e}
            /\ ret' = Return("cancel_workflow_execution", e, 0, TRUE)
       ELSE /\ running_executions' = running_executions
            /\ ret' = Return("cancel_workflow_execution", e, 0, FALSE)
    /\ UNCHANGED <<heap, wf, pure, execs, agents, messages, store, ex, task,
                   paused_executions, checkpoints, nextCp, created, calls, now>>

\* a cancel that also marks the record the task holds
cancel_and_mark(e) ==
    /\ e \in execs /\ Quiescent
    /\ IF e \in running_executions
       THEN /\ running_executions' = running_executions \ {e}
            /\ ret' = Return("cancel_workflow_execution", e, 0, TRUE)
            /\ ex' = [ex EXCEPT ![e].status = CANCELLED, ![e].end_time = now]
            /\ now' = now + 1
            /\ task' = [task EXCEPT ![e].pc = IF @ = "done" THEN "done" ELSE "cancelled"]
       ELSE /\ ret' = Return("cancel_workflow_execution", e, 0, FALSE)
            /\ UNCHANGED <<running_executions, ex, now, task>>
    /\ UNCHANGED <<heap, wf, pure, execs, agents, messages, store, paused_executions,
                   checkpoints, nextCp, created, calls>>

\* workflow_engine.py cancel_workflow_execution: False for an id that is not
\* registered.  Otherwise the task receives CancelledError at its suspension
\* point (CancelledError is no Exception, no handler of the engine catches it):
\* inside the try of a step (agent call, backoff) the finally of line 369 still
\* records the end time.  Cancelling a task that is done does nothing to it.
cancel_workflow_execution(e) ==
    /\ e \in execs /\ Quiescent
    /\ IF e \in running_executions
       THEN /\ running_executions' = running_executions \ {e}
            /\ ret' = Return("cancel_workflow_execution", e, 0, TRUE)
            /\ IF task[e].pc \in {"agent_call", "backoff"}
               THEN /\ ex' = SetStep(e, task[e].cur, [CurExec(e) EXCEPT !.end_time = now])
                    /\ now' = now + 1
                    /\ task' = [task EXCEPT ![e].pc = "cancelled"]
               ELSE /\ ex' = ex
                    /\ now' = now
                    /\ task' = [task EXCEPT ![e].pc = IF @ = "done" THEN "done"
                                                                  ELSE "cancelled"]
       ELSE /\ ret' = Return("cancel_workflow_execution", e, 0, FALSE)
            /\ UNCHANGED <<running_executions, ex, now, task>>
    /\ UNCHANGED <<heap, wf, pure, execs, agents, messages, store, paused_executions,
                   checkpoints, nextCp, created, calls>>

\* asyncio Task.done()
TaskDone(e) == task[e].pc \in {"done", "cancelled"}

\* a cleanup that empties the map
cleanup_everything ==
    /\ Quiescent
    /\ running_executions' = {}
    /\ ret' = Return("cleanup_completed_executions", "none", 0, TRUE)
    /\ UNCHANGED <<heap, wf, pure, execs, agents, messages, store, ex, task,
                   paused_executions, checkpoints, nextCp, created, calls, now>>

\* workflow_engine.py cleanup_completed_executions (main.py periodic_cleanup calls
\* it every minute)
cleanup_completed_executions ==
    /\ Quiescent
    /\ running_executions' = {e \in running_executions : ~TaskDone(e)}
    /\ ret' = Return("cleanup_completed_executions", "none", 0, TRUE)
    /\ UNCHANGED <<heap, wf, pure, execs, agents, messages, store, ex, task,
                   paused_executions, checkpoints, nextCp, created, calls, now>>

\* ------------------------------------------------------------ the inputs
\* The definitions executed: 1..MaxSteps steps; a step depends on any set of
\* other step ids of 1..MaxSteps (ids beyond the definition's length name no step);
\* every step of a definition has the same retry_count; at most one step carries
\* the condition "${flag} == true".
StepDefinitions(i) ==
    {WorkflowStep(d, r, "none") : d \in SUBSET ((1..MaxSteps) \ {i}), r \in 0..MaxRetry}

Conditional(steps, k) ==
    [i \in DOMAIN steps |-> IF i = k THEN [steps[i] EXCEPT !.condition = FlagCondition]
                                     ELSE steps[i]]

Workflows ==
    UNION {{WorkflowDefinition(Conditional(steps, k)) :
               steps \in {f \in [1..n -> UNION {StepDefinitions(i) : i \in 1..n}] :
                             /\ \A i \in 1..n : f[i] \in StepDefinitions(i)
                             /\ \A i \in 1..n : f[i].retry_count = f[1].retry_count},
               k \in 0..n} :
           n \in 1..MaxSteps}

\* the input_data of the execution request
Inputs == {[EmptyContext EXCEPT !["flag"] = f] : f \in {"True", "False"}}

InitWith(ids) ==
    /\ wf \in Workflows
    /\ execs = ids
    /\ store = [e \in ExecIds |-> <<>>]
    /\ \E input \in Inputs : ex = [e \in ExecIds |-> WorkflowExecution(input)]
    /\ task = [e \in ExecIds |-> NewTask]
    /\ running_executions = {}
    /\ paused_executions = {}
    /\ checkpoints = [e \in ExecIds |-> <<>>]
    /\ nextCp = 1
    /\ created = [e \in ExecIds |-> <<>>]
    /\ calls = [e \in ExecIds |-> [i \in 1..MaxSteps |-> 0]]
    /\ now = 1
    /\ ret = Unobserved
    /\ pure = NoPure
    /\ agents = NoAgents
    /\ messages = NoMessages
    /\ heap = <<>>

Init == InitWith({"e1"})

TaskStep(e) ==
    \/ WorkflowStartCheckpoint(e)
    \/ WorkflowInit(e)
    \/ LoopHead(e)
    \/ ForStep(e)
    \/ PauseCheck(e)
    \/ PauseWake(e)
    \/ StepStartCheckpoint(e)
    \/ SetRunning(e)
    \/ CheckCondition(e)
    \/ AgentReturn(e)
    \/ StepCompleteCheckpoint(e)
    \/ StepExcept(e)
    \/ RetryLogic(e)
    \/ BackoffDone(e)
    \/ AfterStep(e)
    \/ EndPass(e)
    \/ Finalize(e)

\* a caller that pauses and cancels registered executions, resumes paused ones
\* and cleans up when there is something to remove
Controller(e) ==
    \/ CreateExecution(e)
    \/ start_workflow_execution(e)
    \/ e \in running_executions \ paused_executions /\ pause_workflow(e)
    \/ e \in paused_executions /\ resume_workflow(e)
    \/ e \in running_executions /\ cancel_workflow_execution(e)

Cleanup == (\E e \in running_executions : TaskDone(e)) /\ cleanup_completed_executions

Next ==
    \/ \E e \in ExecIds : TaskStep(e)
    \/ \E e \in ExecIds : Controller(e)
    \/ Cleanup

Spec == Init /\ [][Next]_vars

\* ------------------------------------------------- a run that is not cancelled
\* One execution started by start_workflow_execution; a caller pauses it while
\* it is registered and resumes it while it is paused, any number of times.  The
\* event loop runs a task that is ready: every agent call returns, every sleep
\* ends, and a task sleeping in the pause loop (it looks at paused_executions
\* once a second, line 307) goes on when the execution stays unpaused.
NextLive ==
    \/ \E e \in ExecIds : TaskStep(e)
    \/ \E e \in ExecIds : CreateExecution(e)
    \/ \E e \in ExecIds : start_workflow_execution(e)
    \/ \E e \in ExecIds : e \in running_executions \ paused_executions /\ pause_workflow(e)
    \/ \E e \in ExecIds : e \in paused_executions /\ resume_workflow(e)

\* the definitions without a conditional step, run on one input
InitLive ==
    /\ InitWith({"e1"})
    /\ \A i \in StepIds(wf) : wf.steps[i].condition = "none"
    /\ ex["e1"].input_data["flag"] = "True"

SpecLive == InitLive /\ [][NextLive]_vars /\ \A e \in ExecIds : WF_vars(TaskStep(e))

\* ------------------------------------------- create_checkpoint on its own
\* Any caller may invoke create_checkpoint (it is a public coroutine of the
\* engine).  Two stored executions; the kind follows the order of a run.
KindOfNext(e) ==
    IF created[e] = <<>> THEN "workflow_start"
    ELSE IF Len(created[e]) % 2 = 1 THEN "step_start" ELSE "step_complete"

CheckpointCall(e) ==
    /\ e \in execs
    /\ nextCp <= MaxCreates
    /\ \E ok \in BOOLEAN :
         IF CheckpointRaises(e, ok)
         THEN UNCHANGED <<checkpoints, nextCp, created, heap>>
         ELSE create_checkpoint(e, KindOfNext(e), 1, ok)
    /\ UNCHANGED <<ret, wf, pure, execs, agents, messages, store, ex, task,
                   running_executions, paused_executions, calls, now>>

InitCheckpoints ==
    /\ wf = WorkflowDefinition(<<WorkflowStep({}, 0, "none")>>)
    /\ execs = ExecIds
    /\ \E input \in Inputs :
         /\ ex = [e \in ExecIds |-> WorkflowExecution(input)]
         /\ store = [e \in ExecIds |-> <<WorkflowExecution(input)>>]
    /\ task = [e \in ExecIds |-> NewTask]
    /\ running_executions = {}
    /\ paused_executions = {}
    /\ checkpoints = [e \in ExecIds |-> <<>>]
    /\ nextCp = 1
    /\ created = [e \in ExecIds |-> <<>>]
    /\ calls = [e \in ExecIds |-> [i \in 1..MaxSteps |-> 0]]
    /\ now = 1
    /\ ret = Unobserved
    /\ pure = NoPure
    /\ agents = NoAgents
    /\ messages = NoMessages
    /\ heap = <<>>

NextCheckpoints == \E e \in ExecIds : CheckpointCall(e)

SpecCheckpoints == InitCheckpoints /\ [][NextCheckpoints]_vars

\* ------------------------------------------------ rollback and the route
\* routes/workflows.py lines 127-130 and 149: the route runs execute_workflow in
\* a background task of its own, without start_workflow_execution, so the id is
\* never registered in running_executions
execute_and_store(e) ==
    /\ e \in execs /\ Quiescent
    /\ task[e].pc = "new"
    /\ task' = [task EXCEPT ![e].pc = "created", ![e].to_store = TRUE]
    /\ UNCHANGED <<heap, ret, wf, pure, execs, agents, messages, store, ex,
                   running_executions, paused_executions, checkpoints, nextCp, created,
                   calls, now>>

\* routes/workflows.py line 133: the background task hands the final record to
\* the store, whose failure is logged and ignored
StoreResult(e) ==
    /\ MayRun(e)
    /\ task[e].pc = "done" /\ task[e].to_store
    /\ \E ok \in BOOLEAN :
         store' = [store EXCEPT ![e] = IF ok THEN <<SerializeExecution(ex[e], heap)>> ELSE @]
    /\ task' = [task EXCEPT ![e].to_store = FALSE]
    /\ UNCHANGED <<heap, ret, wf, pure, execs, agents, messages, ex, running_executions,
                   paused_executions, checkpoints, nextCp, created, calls, now>>

\* workflow_engine.py rollback_to_checkpoint, lines 119-133: a step the checkpoint
\* knows gets the status of the checkpoint, and loses its times, output and
\* error when that status is PENDING
RestoreStep(step_exec, cp) ==
    IF step_exec.step_id \in DOMAIN cp.step_states
    THEN IF cp.step_states[step_exec.step_id] = PENDING
         THEN [step_exec EXCEPT !.status = PENDING, !.start_time = 0, !.end_time = 0,
                                !.output_data = Absent, !.error_message = "none"]
         ELSE [step_exec EXCEPT !.status = cp.step_states[step_exec.step_id]]
    ELSE step_exec

\* lines 116-136: the record rollback_to_checkpoint hands to the store
Restored(rec, cp) ==
    [rec EXCEPT !.context = Serialize(cp.context_snapshot, heap),
                !.step_executions = [i \in DOMAIN rec.step_executions |->
                                        RestoreStep(rec.step_executions[i], cp)],
                !.status = RUNNING]

\* lines 119-127: the steps for which rollback_to_checkpoint calls
\* _handle_step_rollback, which runs the handler registered for the step and
\* catches whatever it raises (lines 190-205)
HandledSteps(rec, cp) ==
    SelectSeq([i \in DOMAIN rec.step_executions |-> i],
              LAMBDA i : /\ rec.step_executions[i].step_id \in DOMAIN cp.step_states
                         /\ rec.step_executions[i].status = COMPLETED
                         /\ cp.step_states[rec.step_executions[i].step_id] # COMPLETED)

\* a search that takes whatever checkpoint the execution has
FindAnyCheckpoint(e, cid) == 1..Len(checkpoints[e])

\* lines 100-106: the positions of the retained checkpoints with this id
FindCheckpoint(e, cid) ==
    {k \in 1..Len(checkpoints[e]) : checkpoints[e][k].checkpoint_id = cid}

\* a rollback that restores the record the task holds as well
rollback_shared_record(e, cid) ==
    /\ e \in execs /\ Quiescent
    /\ \E ok_get \in BOOLEAN :
         IF \/ FindCheckpoint(e, cid) = {}
            \/ get_workflow_execution(store, e, ok_get) = <<>>
         THEN /\ store' = store /\ ex' = ex
              /\ ret' = Return("rollback_to_checkpoint", e, cid, FALSE)
         ELSE /\ store' = [store EXCEPT ![e] =
                    <<Restored(get_workflow_execution(store, e, ok_get)[1],
                               checkpoints[e][CHOOSE k \in FindCheckpoint(e, cid) : TRUE])>>]
              /\ ex' = [ex EXCEPT ![e] =
                    Restored(@, checkpoints[e][CHOOSE k \in FindCheckpoint(e, cid) : TRUE])]
              /\ ret' = Return("rollback_to_checkpoint", e, cid, TRUE)
    /\ UNCHANGED <<heap, wf, pure, execs, agents, messages, task, running_executions,
                   paused_executions, checkpoints, nextCp, created, calls, now>>

\* workflow_engine.py rollback_to_checkpoint: False when the execution has no
\* checkpoints, when none has the id, or when the registry returns no record;
\* otherwise the restored record is stored (a failure of the store is logged and
\* ignored by the registry) and the answer is True
rollback_to_checkpoint(e, cid) ==
    /\ e \in execs /\ Quiescent
    /\ \E ok_get \in BOOLEAN, ok_store \in BOOLEAN :
         IF \/ FindCheckpoint(e, cid) = {}
            \/ get_workflow_execution(store, e, ok_get) = <<>>
         THEN /\ store' = store
              /\ ret' = Return("rollback_to_checkpoint", e, cid, FALSE)
         ELSE /\ store' = [store EXCEPT ![e] =
                    IF ok_store
                    THEN <<Restored(get_workflow_execution(store, e, ok_get)[1],
                                    checkpoints[e][CHOOSE k \in FindCheckpoint(e, cid) : TRUE])>>
                    ELSE @]
              /\ ret' = [Return("rollback_to_checkpoint", e, cid, TRUE) EXCEPT !.handled =
                    HandledSteps(get_workflow_execution(store, e, ok_get)[1],
                                 checkpoints[e][CHOOSE k \in FindCheckpoint(e, cid) : TRUE])]
    /\ UNCHANGED <<heap, wf, pure, execs, agents, messages, ex, task, running_executions,
                   paused_executions, checkpoints, nextCp, created, calls, now>>

\* the steps with output_mapping {"result": "out.value"}
NestedOutput(steps) == [i \in DOMAIN steps |-> [steps[i] EXCEPT !.output_mapping = "out.value"]]

\* the definitions rolled back: one step, and two steps of which the second
\* waits for the first and carries the condition; with either output mapping
RollbackWorkflows ==
    LET flat == {<<WorkflowStep({}, r, "none")>> : r \in 0..1} \cup
                {<<WorkflowStep({}, 1, "none"), WorkflowStep({1}, 1, FlagCondition)>>}
    IN {WorkflowDefinition(steps) : steps \in flat} \cup
       {WorkflowDefinition(NestedOutput(steps)) : steps \in flat}

\* the contexts of the execution handed to the engine: empty, or {"out": {"value": "0"}}
\* whose nested dict is object 1 of the heap
InitialContexts == {EmptyContext, [EmptyContext EXCEPT !["out"] = Ref(1)]}

InitRollback ==
    /\ wf \in RollbackWorkflows
    /\ execs = {"e1"}
    /\ store = [e \in ExecIds |-> <<>>]
    /\ \E input \in Inputs : \E context \in InitialContexts :
         /\ ex = [e \in ExecIds |-> [WorkflowExecution(input) EXCEPT !.context = context]]
         /\ heap = IF context = EmptyContext THEN <<>> ELSE <<"0">>
    /\ task = [e \in ExecIds |-> NewTask]
    /\ running_executions = {}
    /\ paused_executions = {}
    /\ checkpoints = [e \in ExecIds |-> <<>>]
    /\ nextCp = 1
    /\ created = [e \in ExecIds |-> <<>>]
    /\ calls = [e \in ExecIds |-> [i \in 1..MaxSteps |-> 0]]
    /\ now = 1
    /\ ret = NoCall
    /\ pure = NoPure
    /\ agents = NoAgents
    /\ messages = NoMessages

\* the stored record is one the route stored, and differs from what the last
\* checkpoint of e holds
StoredHasChanged(e) ==
    /\ store[e] # <<>>
    /\ store[e][1].status \in {COMPLETED, FAILED}
    /\ created[e] # <<>>
    /\ \/ Serialize(created[e][Len(created[e])].context_snapshot, heap) # store[e][1].context
       \/ created[e][Len(created[e])].step_states #
              [i \in DOMAIN store[e][1].step_executions |->
                  store[e][1].step_executions[i].status]

\* a caller takes a checkpoint of an execution whose run has ended, when the
\* stored record has changed since the last checkpoint
CheckpointAfterRun(e) ==
    /\ task[e].pc = "done" /\ ~task[e].to_store
    /\ StoredHasChanged(e)
    /\ CheckpointCall(e)

\* a caller rolls back an execution whose task sleeps in the pause loop or has
\* ended
RollbackCall(e, cid) ==
    /\ \/ task[e].pc = "paused_sleep"
       \/ task[e].pc = "done" /\ ~task[e].to_store
    /\ rollback_to_checkpoint(e, cid)

\* workflow_registry.py line 133: the record of an execution that is not running
\* expires after seven days
ExpireExecution(e) ==
    /\ e \in execs /\ Quiescent
    /\ task[e].pc \in {"none", "done"} /\ ~task[e].to_store
    /\ store[e] # <<>>
    /\ store' = [store EXCEPT ![e] = <<>>]
    /\ UNCHANGED <<heap, ret, wf, pure, execs, agents, messages, ex, task,
                   running_executions, paused_executions, checkpoints, nextCp, created,
                   calls, now>>

\* the run, started either way, and rollbacks to any id handed out so far or to
\* one never handed out
NextRollback ==
    \/ \E e \in ExecIds : TaskStep(e)
    \/ \E e \in ExecIds : CreateExecution(e)
    \/ \E e \in ExecIds : start_workflow_execution(e)
    \/ \E e \in ExecIds : pause_workflow(e)
    \/ \E e \in ExecIds : resume_workflow(e)
    \/ \E e \in ExecIds : execute_and_store(e)
    \/ \E e \in ExecIds : StoreResult(e)
    \/ \E e \in ExecIds : CheckpointAfterRun(e)
    \/ \E e \in ExecIds : \E cid \in 1..nextCp : RollbackCall(e, cid)
    \/ \E e \in ExecIds : ExpireExecution(e)
    \/ ReadAnswer

SpecRollback == InitRollback /\ [][NextRollback]_vars

\* ------------------------------------- rollback among many checkpoints
\* Two stored executions that do not run: a caller takes checkpoints of the
\* first until the older ones are evicted and at most one of the second, and
\* rolls either back to any id handed out so far or to one never handed out.
InitEviction ==
    /\ wf = WorkflowDefinition(<<WorkflowStep({}, 0, "none")>>)
    /\ execs = ExecIds
    /\ \E input \in Inputs :
         /\ ex = [e \in ExecIds |-> WorkflowExecution(input)]
         /\ store = [e \in ExecIds |-> <<WorkflowExecution(input)>>]
    /\ task = [e \in ExecIds |-> NewTask]
    /\ running_executions = {}
    /\ paused_executions = {}
    /\ checkpoints = [e \in ExecIds |-> <<>>]
    /\ nextCp = 1
    /\ created = [e \in ExecIds |-> <<>>]
    /\ calls = [e \in ExecIds |-> [i \in 1..MaxSteps |-> 0]]
    /\ now = 1
    /\ ret = NoCall
    /\ pure = NoPure
    /\ agents = NoAgents
    /\ messages = NoMessages
    /\ heap = <<>>

NextEviction ==
    \/ \E e \in ExecIds : /\ Answered
                          /\ e = "e1" \/ created[e] = <<>>
                          /\ CheckpointCall(e)
    \/ \E e \in ExecIds : \E cid \in 1..nextCp : rollback_to_checkpoint(e, cid)
    \/ \E e \in ExecIds : ExpireExecution(e)
    \/ ReadAnswer

SpecEviction == InitEviction /\ [][NextEviction]_vars

\* ------------------------------------------------ the cancel route
\* routes/executions.py get_engine: every request gets a WorkflowEngine of its
\* own, and WorkflowEngine.__init__ starts it with no registered execution
get_engine == [running_executions |-> {}]

\* routes/executions.py cancel_execution; ret.arg is the HTTP status and
\* ret.result tells whether the engine of the request cancelled a task.  The
\* record is read from the registry (404 when there is none), must be PENDING or
\* RUNNING (400 otherwise), and is stored as CANCELLED only when the engine of
\* the request had the id registered; the task of the background run belongs to
\* no engine the request can reach and is left alone.
cancel_execution(e) ==
    /\ e \in execs /\ Quiescent
    /\ \E ok_get \in BOOLEAN, ok_store \in BOOLEAN :
         LET execution == get_workflow_execution(store, e, ok_get)
             engine == get_engine
         IN  IF execution = <<>>
             THEN /\ ret' = Return("cancel_execution", e, 404, FALSE)
                  /\ store' = store
             ELSE IF execution[1].status \notin {PENDING, RUNNING}
             THEN /\ ret' = Return("cancel_execution", e, 400, FALSE)
                  /\ store' = store
             ELSE IF e \in engine.running_executions
             THEN /\ ret' = Return("cancel_execution", e, 200, TRUE)
                  /\ store' = [store EXCEPT ![e] =
                        IF ok_store
                        THEN <<[execution[1] EXCEPT !.status = CANCELLED,
                                   !.end_time = IF @ # 0 THEN @ ELSE execution[1].start_time]>>
                        ELSE @]
             ELSE /\ ret' = Return("cancel_execution", e, 200, FALSE)
                  /\ store' = store
    /\ UNCHANGED <<heap, wf, pure, execs, agents, messages, ex, task, running_executions,
                   paused_executions, checkpoints, nextCp, created, calls, now>>

\* one execution launched by POST /workflows/{workflow_id}/execute or by a
\* caller of start_workflow_execution (who may pause and resume it), and cancel
\* requests for it at any moment
NextRoute ==
    \/ \E e \in ExecIds : TaskStep(e)
    \/ \E e \in ExecIds : CreateExecution(e)
    \/ \E e \in ExecIds : start_workflow_execution(e)
    \/ \E e \in ExecIds : e \in running_executions \ paused_executions /\ pause_workflow(e)
    \/ \E e \in ExecIds : e \in paused_executions /\ resume_workflow(e)
    \/ \E e \in ExecIds : execute_and_store(e)
    \/ \E e \in ExecIds : StoreResult(e)
    \/ \E e \in ExecIds : cancel_execution(e)
    \/ ReadAnswer

SpecRoute == InitRollback /\ [][NextRoute]_vars

\* ------------------------------------------- two executions, answers recorded
\* Two executions of a one-step definition run in the same engine; the answers
\* of pause, resume, cancel and cleanup are recorded in ret.
ControlWorkflows == {WorkflowDefinition(<<WorkflowStep({}, 1, "none")>>)}

InitControl ==
    /\ wf \in ControlWorkflows
    /\ execs = ExecIds
    /\ store = [e \in ExecIds |-> <<>>]
    /\ ex = [e \in ExecIds |-> WorkflowExecution([EmptyContext EXCEPT !["flag"] = "True"])]
    /\ task = [e \in ExecIds |-> NewTask]
    /\ running_executions = {}
    /\ paused_executions = {}
    /\ checkpoints = [e \in ExecIds |-> <<>>]
    /\ nextCp = 1
    /\ created = [e \in ExecIds |-> <<>>]
    /\ calls = [e \in ExecIds |-> [i \in 1..MaxSteps |-> 0]]
    /\ now = 1
    /\ ret = NoCall
    /\ pure = NoPure
    /\ agents = NoAgents
    /\ messages = NoMessages
    /\ heap = <<>>

\* a caller that calls every operation with every id
AnyCall(e) ==
    \/ CreateExecution(e)
    \/ start_workflow_execution(e)
    \/ pause_workflow(e)
    \/ resume_workflow(e)
    \/ cancel_workflow_execution(e)

NextControl ==
    \/ \E e \in ExecIds : TaskStep(e)
    \/ \E e \in ExecIds : AnyCall(e)
    \/ cleanup_completed_executions
    \/ ReadAnswer

SpecControl == InitControl /\ [][NextControl]_vars

\* ------------------------------------------------------ conditional steps
\* Two steps that may be retried once; one of them carries a condition on the
\* flag of the input or on the context key "out" that the other step writes.
SkipWorkflows ==
    {WorkflowDefinition(<<WorkflowStep({}, 1, c), WorkflowStep(d, 1, "none")>>) :
        c \in {FlagCondition, OutCondition}, d \in {{}, {1}}} \cup
    {WorkflowDefinition(<<WorkflowStep({}, 1, "none"), WorkflowStep(d, 1, c)>>) :
        c \in {FlagCondition, OutCondition}, d \in {{}, {1}}}

SkipInputs ==
    {[flag |-> f, out |-> o] : f \in {"True", "False"}, o \in {Absent, "0"}}

InitSkip ==
    /\ wf \in SkipWorkflows
    /\ execs = {"e1"}
    /\ store = [e \in ExecIds |-> <<>>]
    /\ \E input \in SkipInputs : ex = [e \in ExecIds |-> WorkflowExecution(input)]
    /\ task = [e \in ExecIds |-> NewTask]
    /\ running_executions = {}
    /\ paused_executions = {}
    /\ checkpoints = [e \in ExecIds |-> <<>>]
    /\ nextCp = 1
    /\ created = [e \in ExecIds |-> <<>>]
    /\ calls = [e \in ExecIds |-> [i \in 1..MaxSteps |-> 0]]
    /\ now = 1
    /\ ret = Unobserved
    /\ pure = NoPure
    /\ agents = NoAgents
    /\ messages = NoMessages
    /\ heap = <<>>

SpecSkip == InitSkip /\ [][Next]_vars

\* ------------------------------------- mapping values and conditions, as text
\* The helpers that resolve mapping values and evaluate conditions work on the
\* characters of their argument.  A python value is a record of its type, its
\* str() and, for a dict or a list, its items.  The operators named after a
\* method or a type of python (startswith, isdigit, lower, strip, split, float,
\* ==, bool) model the language's built-ins as lines 415-607 use them.
Char(s, i) == SubSeq(s, i, i)

DigitChars == {"0", "1", "2", "3", "4", "5", "6", "7", "8", "9"}

UpperCase == "ABCDEFGHIJKLMNOPQRSTUVWXYZ"

LowerCase == "abcdefghijklmnopqrstuvwxyz"

\* str.startswith, str.endswith, the operator in on two strings
startswith(s, p) == Len(s) >= Len(p) /\ SubSeq(s, 1, Len(p)) = p

endswith(s, p) == Len(s) >= Len(p) /\ SubSeq(s, Len(s) - Len(p) + 1, Len(s)) = p

Contains(s, p) == \E i \in 1..(Len(s) - Len(p) + 1) : SubSeq(s, i, i + Len(p) - 1) = p

\* str.isdigit on ASCII text
isdigit(s) == s # "" /\ \A i \in 1..Len(s) : Char(s, i) \in DigitChars

RECURSIVE lower(_)
\* str.lower
lower(s) ==
    IF s = "" THEN ""
    ELSE (IF \E i \in 1..26 : Char(UpperCase, i) = Head(s)
          THEN Char(LowerCase, CHOOSE i \in 1..26 : Char(UpperCase, i) = Head(s))
          ELSE Head(s)) \o lower(Tail(s))

RECURSIVE strip(_)
\* str.strip; the only white space of the texts is the blank
strip(s) ==
    IF s = "" THEN ""
    ELSE IF Head(s) = " " THEN strip(Tail(s))
    ELSE IF Char(s, Len(s)) = " " THEN strip(SubSeq(s, 1, Len(s) - 1))
    ELSE s

RECURSIVE split(_)
\* str.split(): the maximal runs of non-blank characters
split(s) ==
    LET t == strip(s) IN
        IF t = "" THEN <<>>
        ELSE LET n == IF Contains(t, " ")
                      THEN (CHOOSE i \in 1..Len(t) :
                               Char(t, i) = " " /\ \A j \in 1..(i - 1) : Char(t, j) # " ") - 1
                      ELSE Len(t)
             IN <<SubSeq(t, 1, n)>> \o split(SubSeq(t, n + 1, Len(t)))

\* python values
PyStr(s) == [type |-> "str", text |-> s, items |-> <<>>]

PyInt(s) == [type |-> "int", text |-> s, items |-> <<>>]

PyFloat(s) == [type |-> "float", text |-> s, items |-> <<>>]

PyBool(b) == [type |-> "bool", text |-> IF b THEN "True" ELSE "False", items |-> <<>>]

PyNone == [type |-> "NoneType", text |-> "None", items |-> <<>>]

PyDict(s, items) == [type |-> "dict", text |-> s, items |-> items]

PyList(s, items) == [type |-> "list", text |-> s, items |-> items]

RECURSIVE StripZeros(_)
\* int() of a text of digits: str() of the result has no leading zero
StripZeros(s) == IF Len(s) > 1 /\ Head(s) = "0" THEN StripZeros(Tail(s)) ELSE s

RECURSIVE StripTrailingZeros(_)
StripTrailingZeros(s) ==
    IF Len(s) > 1 /\ Char(s, Len(s)) = "0" THEN StripTrailingZeros(SubSeq(s, 1, Len(s) - 1))
    ELSE s

\* the text without its sign
Unsigned(s) == IF startswith(s, "-") \/ startswith(s, "+") THEN Tail(s) ELSE s

\* the position of the decimal point of a text, 0 when it has none
PointOf(s) == IF Contains(s, ".") THEN CHOOSE i \in 1..Len(s) : Char(s, i) = "." /\
                                           \A j \in 1..(i - 1) : Char(s, j) # "."
              ELSE 0

\* the texts float() accepts: an optional sign, then inf, infinity or nan in any
\* case, or digits with at most one decimal point (the texts of the model have no
\* exponent and no underscore)
IsFloatText(s) ==
    LET u == Unsigned(strip(s))
        p == PointOf(u)
        whole == IF p = 0 THEN u ELSE SubSeq(u, 1, p - 1)
        frac == IF p = 0 THEN "" ELSE SubSeq(u, p + 1, Len(u))
    IN \/ lower(u) \in {"inf", "infinity", "nan"}
       \/ /\ whole \o frac # ""
          /\ whole = "" \/ isdigit(whole)
          /\ frac = "" \/ isdigit(frac)

\* str(float(s)) for a text float() accepts
FloatText(s) ==
    LET t == strip(s)
        u == Unsigned(t)
        p == PointOf(u)
        whole == IF p = 0 THEN u ELSE SubSeq(u, 1, p - 1)
        frac == IF p = 0 THEN "" ELSE SubSeq(u, p + 1, Len(u))
        sign == IF startswith(t, "-") THEN "-" ELSE ""
    IN IF lower(u) = "nan" THEN "nan"
       ELSE IF lower(u) \in {"inf", "infinity"} THEN sign \o "inf"
       ELSE sign \o StripZeros(IF whole = "" THEN "0" ELSE whole) \o "." \o
            StripTrailingZeros(IF frac = "" THEN "0" ELSE frac)

\* the number a text of digits denotes
DigitValue(c) == CHOOSE d \in 0..9 : ToString(d) = c

RECURSIVE NatOf(_)
NatOf(s) == IF s = "" THEN 0
            ELSE NatOf(SubSeq(s, 1, Len(s) - 1)) * 10 + DigitValue(Char(s, Len(s)))

\* a finite float, given by its str(), in thousandths (the texts of the model have
\* at most three decimals)
Thousandths(t) ==
    LET u == Unsigned(t)
        p == PointOf(u)
        frac == SubSeq(SubSeq(u, p + 1, Len(u)) \o "000", 1, 3)
    IN (IF startswith(t, "-") THEN -1 ELSE 1) * (NatOf(SubSeq(u, 1, p - 1)) * 1000 + NatOf(frac))

NumericTypes == {"int", "float", "bool"}

\* float(v) is defined
CanFloat(v) == v.type \in NumericTypes \/ (v.type = "str" /\ IsFloatText(v.text))

\* str(float(v))
FloatOf(v) == IF v.type = "bool" THEN (IF v.text = "True" THEN "1.0" ELSE "0.0")
              ELSE IF v.type = "float" THEN v.text
              ELSE FloatText(v.text)

\* a < b for two floats given by their str()
FloatLess(a, b) ==
    IF a = "nan" \/ b = "nan" THEN FALSE
    ELSE IF a = "-inf" THEN b # "-inf"
    ELSE IF b = "inf" THEN a # "inf"
    ELSE IF a = "inf" \/ b = "-inf" THEN FALSE
    ELSE Thousandths(a) < Thousandths(b)

FloatEqual(a, b) ==
    IF a = "nan" \/ b = "nan" THEN FALSE
    ELSE IF a \in {"inf", "-inf"} \/ b \in {"inf", "-inf"} THEN a = b
    ELSE Thousandths(a) = Thousandths(b)

\* the operator == of python
PyEq(a, b) ==
    IF a.type \in NumericTypes /\ b.type \in NumericTypes
    THEN FloatEqual(FloatOf(a), FloatOf(b))
    ELSE a.type = b.type /\ a = b

\* bool(v)
Truthy(v) ==
    IF v.type \in NumericTypes THEN ~FloatEqual(FloatOf(v), "0.0")
    ELSE IF v.type = "str" THEN v.text # ""
    ELSE IF v.type = "NoneType" THEN FALSE
    ELSE DOMAIN v.items # {}

RECURSIVE SplitOn(_, _)
\* str.split(sep) for a separator of one character
SplitOn(s, sep) ==
    IF ~Contains(s, sep) THEN <<s>>
    ELSE LET i == CHOOSE i \in 1..Len(s) :
                     Char(s, i) = sep /\ \A j \in 1..(i - 1) : Char(s, j) # sep
         IN <<SubSeq(s, 1, i - 1)>> \o SplitOn(SubSeq(s, i + 1, Len(s)), sep)

RECURSIVE Descend(_, _)
\* lines 473-482: the walk of _resolve_dot_notation
Descend(parts, current) ==
    IF parts = <<>> THEN current
    ELSE IF current.type # "dict" THEN PyNone
    ELSE IF Head(parts) \notin DOMAIN current.items THEN PyNone
    ELSE IF current.items[Head(parts)].type = "NoneType" THEN PyNone
    ELSE Descend(Tail(parts), current.items[Head(parts)])

\* workflow_engine.py _resolve_dot_notation; context is the dict of the keys
_resolve_dot_notation(path, context) == Descend(SplitOn(path, "."), PyDict("", context))

\* d[k] = v on a dict
Put(d, k, v) == [x \in DOMAIN d \cup {k} |-> IF x = k THEN v ELSE d[x]]

RECURSIVE SetPath(_, _, _)
\* lines 503-515: the walk of _set_nested_value; a part that is missing or holds
\* no dict gets a new dict
SetPath(current, parts, value) ==
    IF Len(parts) = 1 THEN Put(current, parts[1], value)
    ELSE LET part == Head(parts)
             below == IF part \in DOMAIN current /\ current[part].type = "dict"
                      THEN current[part].items ELSE <<>>
         IN Put(current, part, PyDict("", SetPath(below, Tail(parts), value)))

\* an assignment that takes the whole path for one key
set_flat_value(context, path, value) == Put(context, path, value)

\* workflow_engine.py _set_nested_value, the context after the call
_set_nested_value(context, path, value) ==
    IF ~Contains(path, ".") THEN Put(context, path, value)
    ELSE SetPath(context, SplitOn(path, "."), value)

RECURSIVE _map_step_output(_, _, _)
\* workflow_engine.py _map_step_output, the context after the call; the
\* output_mapping is the sequence of its (key, path) entries
_map_step_output(output_mapping, step_output, context) ==
    IF output_mapping = <<>> THEN context
    ELSE LET step_output_key == Head(output_mapping)[1]
             context_key == Head(output_mapping)[2]
         IN _map_step_output(Tail(output_mapping), step_output,
                IF step_output_key \in DOMAIN step_output
                THEN _set_nested_value(context, context_key, step_output[step_output_key])
                ELSE context)

\* the positions where the pattern \$\{([^}]+)\} matches
VariableAt(text) ==
    {i \in 1..(Len(text) - 3) :
        /\ SubSeq(text, i, i + 1) = "${"
        /\ Char(text, i + 2) # "}"
        /\ \E j \in (i + 3)..Len(text) : Char(text, j) = "}"}

RECURSIVE _substitute_variables(_, _)
\* workflow_engine.py _substitute_variables: every ${path} becomes the str() of
\* the value at the path, or MISSING(path) when there is none
_substitute_variables(text, context) ==
    IF VariableAt(text) = {} THEN text
    ELSE LET i == CHOOSE i \in VariableAt(text) : \A k \in VariableAt(text) : i <= k
             j == CHOOSE j \in (i + 3)..Len(text) :
                      Char(text, j) = "}" /\ \A k \in (i + 3)..(j - 1) : Char(text, k) # "}"
             var_path == SubSeq(text, i + 2, j - 1)
             value == _resolve_dot_notation(var_path, context)
         IN SubSeq(text, 1, i - 1) \o
            (IF value.type # "NoneType" THEN value.text ELSE "MISSING(" \o var_path \o ")") \o
            _substitute_variables(SubSeq(text, j + 1, Len(text)), context)

\* json.loads on the JSON texts of the model
JsonValue ==
    [s \in {"{}", "[]", "[1]", "{\"b\": 1}"} |->
        CASE s = "{}" -> PyDict("{}", <<>>)
          [] s = "[]" -> PyList("[]", <<>>)
          [] s = "[1]" -> PyList("[1]", <<PyInt("1")>>)
          [] s = "{\"b\": 1}" -> PyDict("{'b': 1}", [k \in {"b"} |-> PyInt("1")])]

\* a resolution that looks a name up in the context before it reads it as a literal
context_key_first(mapping_value, context) ==
    IF mapping_value \in DOMAIN context THEN context[mapping_value] ELSE PyStr(mapping_value)

\* workflow_engine.py _resolve_mapping_value for a string
_resolve_mapping_value(mapping_value, context) ==
    IF Contains(mapping_value, "${")
    THEN PyStr(_substitute_variables(mapping_value, context))
    ELSE IF startswith(mapping_value, "\"") /\ endswith(mapping_value, "\"")
    THEN PyStr(SubSeq(mapping_value, 2, Len(mapping_value) - 1))
    ELSE IF startswith(mapping_value, "'") /\ endswith(mapping_value, "'")
    THEN PyStr(SubSeq(mapping_value, 2, Len(mapping_value) - 1))
    ELSE IF isdigit(mapping_value) THEN PyInt(StripZeros(mapping_value))
    ELSE IF IsFloatText(mapping_value) THEN PyFloat(FloatText(mapping_value))
    ELSE IF lower(mapping_value) = "true" THEN PyBool(TRUE)
    ELSE IF lower(mapping_value) = "false" THEN PyBool(FALSE)
    ELSE IF lower(mapping_value) \in {"null", "none"} THEN PyNone
    ELSE IF /\ startswith(mapping_value, "{") \/ startswith(mapping_value, "[")
            /\ mapping_value \in DOMAIN JsonValue
    THEN JsonValue[mapping_value]
    ELSE IF Contains(mapping_value, ".") THEN _resolve_dot_notation(mapping_value, context)
    ELSE IF mapping_value \in DOMAIN context THEN context[mapping_value]
    ELSE PyStr(mapping_value)

\* str.isalnum on one ASCII character
isalnum(c) ==
    \/ c \in DigitChars
    \/ \E i \in 1..26 : c = Char(UpperCase, i) \/ c = Char(LowerCase, i)

\* line 599: every character is alphanumeric, one of the keywords of one
\* character, or one of ( ) " ' and the blank
SafeToEval(condition) ==
    \A i \in 1..Len(condition) :
        \/ isalnum(Char(condition, i))
        \/ Char(condition, i) \in {">", "<"}
        \/ Char(condition, i) \in {"(", ")", "\"", "'", " "}

\* a literal of the expressions handed to eval
IsLiteral(tok) == tok \in {"True", "False"} \/ (isdigit(tok) /\ tok = StripZeros(tok))

LiteralValue(tok) == IF tok = "True" THEN PyBool(TRUE)
                     ELSE IF tok = "False" THEN PyBool(FALSE)
                     ELSE PyInt(tok)

\* eval() succeeds: of the expressions of the model, those of two literals joined
\* by and or by or; every other one names something undefined or is no expression
EvalSucceeds(condition) ==
    LET parts == split(condition) IN
        /\ Len(parts) = 3
        /\ IsLiteral(parts[1]) /\ IsLiteral(parts[3])
        /\ parts[2] \in {"and", "or"}

\* the value of such an expression
Eval(condition) ==
    LET parts == split(condition)
        left == LiteralValue(parts[1])
        right == LiteralValue(parts[3])
    IN IF parts[2] = "and" THEN (IF Truthy(left) THEN right ELSE left)
       ELSE (IF Truthy(left) THEN left ELSE right)

\* workflow_engine.py _evaluate_complex_condition
_evaluate_complex_condition(condition, context) ==
    LET substituted == _substitute_variables(condition, context) IN
        IF SafeToEval(substituted)
        THEN IF EvalSucceeds(substituted) THEN Eval(substituted) ELSE PyBool(TRUE)
        ELSE PyBool(TRUE)

\* line 532
IsComplex(condition) ==
    Contains(condition, " and ") \/ Contains(condition, " or ") \/ Contains(condition, " not ")

Operators == {"==", "!=", ">", "<", ">=", "<=", "in", "contains"}

\* lines 561-564: needle in haystack raises TypeError
MembershipRaises(needle, haystack) ==
    \/ haystack.type \notin {"str", "dict", "list"}
    \/ haystack.type = "str" /\ needle.type # "str"
    \/ haystack.type = "dict" /\ needle.type \in {"dict", "list"}

\* needle in haystack
Membership(needle, haystack) ==
    IF haystack.type = "str" THEN Contains(haystack.text, needle.text)
    ELSE IF haystack.type = "dict" THEN needle.type = "str" /\ needle.text \in DOMAIN haystack.items
    ELSE \E k \in DOMAIN haystack.items : PyEq(needle, haystack.items[k])

\* lines 547-567: the comparison raises
ComparisonRaises(left_value, operator, right_value) ==
    \/ operator \in {">", "<", ">=", "<="} /\ ~(CanFloat(left_value) /\ CanFloat(right_value))
    \/ operator = "in" /\ MembershipRaises(left_value, right_value)
    \/ operator = "contains" /\ MembershipRaises(right_value, left_value)

\* lines 547-567
Comparison(left_value, operator, right_value) ==
    CASE operator = "==" -> PyEq(left_value, right_value)
      [] operator = "!=" -> ~PyEq(left_value, right_value)
      [] operator = ">" -> FloatLess(FloatOf(right_value), FloatOf(left_value))
      [] operator = "<" -> FloatLess(FloatOf(left_value), FloatOf(right_value))
      [] operator = ">=" -> \/ FloatLess(FloatOf(right_value), FloatOf(left_value))
                            \/ FloatEqual(FloatOf(right_value), FloatOf(left_value))
      [] operator = "<=" -> \/ FloatLess(FloatOf(left_value), FloatOf(right_value))
                            \/ FloatEqual(FloatOf(right_value), FloatOf(left_value))
      [] operator = "in" -> Membership(left_value, right_value)
      [] operator = "contains" -> Membership(right_value, left_value)
      [] OTHER -> TRUE

\* workflow_engine.py _evaluate_condition: what the call returns
_evaluate_condition(condition, context) ==
    LET substituted == strip(_substitute_variables(condition, context))
        parts == split(substituted)
    IN IF IsComplex(substituted) THEN _evaluate_complex_condition(substituted, context)
       ELSE IF Len(parts) # 3 THEN PyBool(TRUE)
       ELSE LET left_value == _resolve_mapping_value(parts[1], context)
                right_value == _resolve_mapping_value(parts[3], context)
            IN IF ComparisonRaises(left_value, parts[2], right_value) THEN PyBool(TRUE)
               ELSE PyBool(Comparison(left_value, parts[2], right_value))

\* ------------------------------------------ the pure helpers on their own
\* One call of _evaluate_condition or of _resolve_mapping_value on a text and a
\* context; pure holds the arguments and, after the call, what it returned.
PureContexts ==
    {<<>>,
     [k \in {"x"} |-> PyInt("5")],
     [k \in {"x"} |-> PyStr("a b")],
     [k \in {"x"} |-> PyStr("")],
     [k \in {"x"} |-> PyStr("False")],
     [k \in {"x"} |-> PyNone],
     [k \in {"x"} |-> PyBool(TRUE)],
     [k \in {"x", "a"} |-> IF k = "x" THEN PyFloat("1.5")
                           ELSE PyDict("{'b': 1}", [j \in {"b"} |-> PyInt("1")])],
     [k \in {"5", "true"} |-> PyStr("five")]}

\* conditions of three tokens, with the operators of the engine and one it does
\* not know; conditions of fewer or more tokens; conditions with and, or
Conditions ==
    {l \o " " \o o \o " " \o r :
        l \in {"${x}", "x", "5", "${a.b}", "abc", "a.b"},
        o \in Operators \cup {"~="},
        r \in {"true", "5", "abc", "1.5", "x"}} \cup
    {"", "x", "x ==", "x == 5 6", "${x}", "${x} ==true", " x == 5 "} \cup
    {"True and False", "${x} and True", "${x} or False", "x == 5 and x == 5"}

MappingValues ==
    {"5", "\"5\"", "'5'", "${x}", "x", "y", "true", "False", "NULL", "none", "TRUE",
     "1.5", "-5", "05", "007", "5.", " 5", "inf", "{}", "[1]", "{\"b\": 1}", "{bad",
     "a.b", "a.c", "x.y", ".", "${a.b}", "${y}", "${}", "\"${x}\"", "x${x}", "\"", "",
     "\"x\"", "'true'"}

\* output mappings of up to two entries with different keys, of which "c" is
\* never a key of the output; outputs with any of the keys "a" and "b"
OutputMappings ==
    LET entries == {<<k, path>> : k \in {"a", "b", "c"}, path \in {"x", "x.y", "x.y.z", "w"}}
    IN {<<>>} \cup {<<m>> : m \in entries} \cup
       {p \in {<<m, n>> : m \in entries, n \in entries} : p[1][1] # p[2][1]}

StepOutputs ==
    LET values == {PyStr("A"), PyInt("7"), PyDict("", [k \in {"y"} |-> PyStr("in")])}
    IN UNION {[keys -> values] : keys \in SUBSET {"a", "b"}}

OutputContexts ==
    {<<>>,
     [k \in {"x"} |-> PyStr("old")],
     [k \in {"x"} |-> PyDict("", [j \in {"y"} |-> PyInt("1")])],
     [k \in {"x", "w"} |-> IF k = "w" THEN PyInt("2")
                           ELSE PyDict("", [j \in {"z"} |-> PyInt("1")])]}

InitPure ==
    /\ wf = WorkflowDefinition(<<WorkflowStep({}, 0, "none")>>)
    /\ execs = {}
    /\ store = [e \in ExecIds |-> <<>>]
    /\ ex = [e \in ExecIds |-> WorkflowExecution(EmptyContext)]
    /\ task = [e \in ExecIds |-> NewTask]
    /\ running_executions = {}
    /\ paused_executions = {}
    /\ checkpoints = [e \in ExecIds |-> <<>>]
    /\ nextCp = 1
    /\ created = [e \in ExecIds |-> <<>>]
    /\ calls = [e \in ExecIds |-> [i \in 1..MaxSteps |-> 0]]
    /\ now = 1
    /\ ret = Unobserved
    /\ heap = <<>>
    /\ agents = NoAgents
    /\ messages = NoMessages
    /\ \/ \E output_mapping \in OutputMappings, step_output \in StepOutputs,
               context \in OutputContexts :
              pure = [fn |-> "_map_step_output", text |-> "", context |-> context,
                      returned |-> FALSE, value |-> PyNone,
                      output_mapping |-> output_mapping, step_output |-> step_output]
       \/ \E context \in PureContexts :
         \/ \E condition \in Conditions :
              pure = [fn |-> "_evaluate_condition", text |-> condition,
                      context |-> context, returned |-> FALSE, value |-> PyNone]
         \/ \E mapping_value \in MappingValues :
              pure = [fn |-> "_resolve_mapping_value", text |-> mapping_value,
                      context |-> context, returned |-> FALSE, value |-> PyNone]

EvaluateCondition ==
    /\ pure.fn = "_evaluate_condition" /\ ~pure.returned
    /\ pure' = [pure EXCEPT !.returned = TRUE,
                            !.value = _evaluate_condition(pure.text, pure.context)]
    /\ UNCHANGED <<wf, execs, agents, messages, store, ex, task, running_executions,
                   paused_executions, checkpoints, nextCp, created, calls, now, ret, heap>>

ResolveMappingValue ==
    /\ pure.fn = "_resolve_mapping_value" /\ ~pure.returned
    /\ pure' = [pure EXCEPT !.returned = TRUE,
                            !.value = _resolve_mapping_value(pure.text, pure.context)]
    /\ UNCHANGED <<wf, execs, agents, messages, store, ex, task, running_executions,
                   paused_executions, checkpoints, nextCp, created, calls, now, ret, heap>>

MapStepOutput ==
    /\ pure.fn = "_map_step_output" /\ ~pure.returned
    /\ pure' = [pure EXCEPT !.returned = TRUE,
                            !.value = PyDict("", _map_step_output(pure.output_mapping,
                                                     pure.step_output, pure.context))]
    /\ UNCHANGED <<wf, execs, agents, messages, store, ex, task, running_executions,
                   paused_executions, checkpoints, nextCp, created, calls, now, ret, heap>>

NextPure == EvaluateCondition \/ ResolveMappingValue \/ MapStepOutput

SpecPure == InitPure /\ [][NextPure]_vars

\* ------------------------------------------------------ the agent service
\* One registered agent of the requested type, IDLE, and MaxRequests concurrent
\* POST /execute requests for it.  The registry keeps the agent's current_load
\* in Redis; a request keeps the AgentMetadata it read when it found the agent.
Requests == 1..MaxRequests

\* the engine and the pure helpers are idle
EngineIdle ==
    /\ wf = WorkflowDefinition(<<WorkflowStep({}, 0, "none")>>)
    /\ execs = {}
    /\ store = [e \in ExecIds |-> <<>>]
    /\ ex = [e \in ExecIds |-> WorkflowExecution(EmptyContext)]
    /\ task = [e \in ExecIds |-> NewTask]
    /\ running_executions = {}
    /\ paused_executions = {}
    /\ checkpoints = [e \in ExecIds |-> <<>>]
    /\ nextCp = 1
    /\ created = [e \in ExecIds |-> <<>>]
    /\ calls = [e \in ExecIds |-> [i \in 1..MaxSteps |-> 0]]
    /\ now = 1
    /\ ret = Unobserved
    /\ heap = <<>>
    /\ pure = NoPure

\* agent_service/models.py AgentMetadata: current_load = 0 at registration
InitAgents ==
    /\ EngineIdle
    /\ messages = NoMessages
    /\ \E max_concurrent_tasks \in 1..MaxRequests :
         agents = [service |-> "agents",
                   current_load |-> 0,
                   max_concurrent_tasks |-> max_concurrent_tasks,
                   request |-> [r \in Requests |-> [pc |-> "none", current_load |-> 0]]]

\* agent_registry.py find_available_agent: the agent as read from Redis, when
\* its load is below max_concurrent_tasks; <<>> for None
find_available_agent(registry) ==
    IF registry.current_load < registry.max_concurrent_tasks
    THEN <<[current_load |-> registry.current_load]>>
    ELSE <<>>

\* agent_registry.py update_agent_load: the sorted set and the hash get new_load
update_agent_load(registry, new_load) == [registry EXCEPT !.current_load = new_load]

\* routes/agents.py line 170: the load written before the execution
LoadBefore(registry, r) ==
    update_agent_load(registry, registry.request[r].current_load + 1)

\* routes/agents.py line 188: the load written in the finally
LoadAfter(registry, r) ==
    update_agent_load(registry,
                      IF registry.request[r].current_load - 1 > 0
                      THEN registry.request[r].current_load - 1 ELSE 0)

\* routes/agents.py execute_task up to the await of execute_request: 503 when
\* no agent is available
ExecuteTaskBegin(r) ==
    /\ agents.request[r].pc = "none"
    /\ LET agent == find_available_agent(agents)
       IN IF agent = <<>>
          THEN agents' = [agents EXCEPT !.request[r].pc = "unavailable"]
          ELSE agents' = LoadBefore([agents EXCEPT !.request[r] =
                                        [pc |-> "executing",
                                         current_load |-> agent[1].current_load]], r)
    /\ UNCHANGED <<wf, execs, messages, store, ex, task, running_executions,
                   paused_executions, checkpoints, nextCp, created, calls, now, ret, heap,
                   pure>>

\* routes/agents.py execute_task from the return of execute_request
ExecuteTaskEnd(r) ==
    /\ agents.request[r].pc = "executing"
    /\ agents' = [LoadAfter(agents, r) EXCEPT !.request[r].pc = "done"]
    /\ UNCHANGED <<wf, execs, messages, store, ex, task, running_executions,
                   paused_executions, checkpoints, nextCp, created, calls, now, ret, heap,
                   pure>>

NextAgents == \E r \in Requests : ExecuteTaskBegin(r) \/ ExecuteTaskEnd(r)

SpecAgents == InitAgents /\ [][NextAgents]_vars

\* ------------------------------------------------------ the queue manager
\* One queue with a registered handler and its processor running.  Redis holds
\* the message hashes and four sorted sets of message ids; the processor pops
\* the message of least score and starts one task per message, at most
\* max_concurrent of them inside _process_message at a time.  scheduled_at is
\* kept as the number of seconds from now until it (0: none, or in the past),
\* created_at as the position in the order of the enqueue calls.
MsgIds == {"m1", "m2"}

PROCESSING == "processing"

DEAD_LETTER == "dead_letter"

\* communication_service/models.py MessageStatus
MessageStatus == {PENDING, PROCESSING, COMPLETED, FAILED, DEAD_LETTER}

NotEnqueued == [status |-> "none"]

\* communication_service/models.py Message; the payload tells the handler how
\* many of its first calls for the message fail
Message(message_id, priority, max_retries, payload, created_at, scheduled_at) ==
    [message_id |-> message_id, priority |-> priority, status |-> PENDING,
     created_at |-> created_at, scheduled_at |-> scheduled_at, retry_count |-> 0,
     max_retries |-> max_retries, payload |-> payload, error_message |-> "none"]

\* what the clients enqueue: priority 1 or 2, a delay of 0 or 1 second,
\* max_retries up to MaxRetry, and a handler that fails never, once, or always
Payloads == {0, 1, MaxRetry + 1}

InitQueue ==
    /\ EngineIdle
    /\ agents = NoAgents
    /\ \E max_concurrent \in 1..2 :
         messages = [service |-> "queue",
                     message |-> [m \in MsgIds |-> NotEnqueued],
                     queue |-> {}, processing |-> {}, completed |-> {}, dlq |-> {},
                     task |-> [m \in MsgIds |-> "none"],
                     handled |-> [m \in MsgIds |-> 0],
                     enqueued |-> 0,
                     max_concurrent |-> max_concurrent]

QueueFrame ==
    UNCHANGED <<wf, execs, agents, store, ex, task, running_executions, paused_executions,
                checkpoints, nextCp, created, calls, now, ret, heap, pure>>

\* queue_manager.py _calculate_priority_score
_calculate_priority_score(message) == (10 - message.priority) * 1000000 + message.created_at

\* queue_manager.py enqueue_message
enqueue_message(m, priority, max_retries, delay_seconds, payload) ==
    /\ messages.message[m] = NotEnqueued
    /\ messages' = [messages EXCEPT
            !.message[m] = Message(m, priority, max_retries, payload,
                                   messages.enqueued + 1, delay_seconds),
            !.queue = @ \cup {m},
            !.enqueued = @ + 1]
    /\ QueueFrame

\* ZPOPMIN: the member of least score
PopMin(q) ==
    CHOOSE m \in q : \A n \in q :
        _calculate_priority_score(messages.message[m])
            <= _calculate_priority_score(messages.message[n])

\* queue_manager.py _queue_processor with _dequeue_message: a message that is
\* scheduled for later is put back and nothing is started; otherwise it goes to
\* the processing set and a task is created for it
_dequeue_message ==
    /\ messages.queue # {}
    /\ LET m == PopMin(messages.queue)
       IN IF messages.message[m].scheduled_at > 0
          THEN messages' = messages
          ELSE messages' = [messages EXCEPT !.queue = @ \ {m},
                                            !.processing = @ \cup {m},
                                            !.task[m] = "created"]
    /\ QueueFrame

\* queue_manager.py _process_message_with_semaphore and _process_message up to
\* the call of the handler
StartProcessing(m) ==
    /\ messages.task[m] = "created"
    /\ Cardinality({n \in MsgIds : messages.task[n] = "handler"}) < messages.max_concurrent
    /\ messages' = [messages EXCEPT !.message[m].status = PROCESSING,
                                    !.task[m] = "handler",
                                    !.handled[m] = @ + 1]
    /\ QueueFrame

\* the handler of the queue raises on the first payload calls for a message
HandlerFails(m) == messages.handled[m] <= messages.message[m].payload

\* a manager that gives up one attempt earlier
RetriesLeftButOne(message) == message.retry_count < message.max_retries

\* queue_manager.py line 358
RetriesLeft(message) == message.retry_count <= message.max_retries

\* min(60, 2 ** retry_count)
Backoff(retry_count) == IF 2 ^ retry_count < 60 THEN 2 ^ retry_count ELSE 60

\* queue_manager.py _process_message from the return of the handler: completed,
\* or counted as a failure and put back with a delay, or moved to the dead
\* letter queue; at the end the id leaves the processing set
HandlerReturns(m) ==
    /\ messages.task[m] = "handler"
    /\ LET failed == [messages.message[m] EXCEPT !.retry_count = @ + 1,
                                                  !.error_message = "error"]
       IN messages' =
            IF ~HandlerFails(m)
            THEN [messages EXCEPT !.message[m].status = COMPLETED,
                                  !.completed = @ \cup {m},
                                  !.processing = @ \ {m},
                                  !.task[m] = "none"]
            ELSE IF RetriesLeft(failed)
            THEN [messages EXCEPT !.message[m] =
                                      [failed EXCEPT !.status = PENDING,
                                                     !.scheduled_at = Backoff(failed.retry_count)],
                                  !.queue = @ \cup {m},
                                  !.processing = @ \ {m},
                                  !.task[m] = "none"]
            ELSE [messages EXCEPT !.message[m] = [failed EXCEPT !.status = DEAD_LETTER],
                                  !.dlq = @ \cup {m},
                                  !.processing = @ \ {m},
                                  !.task[m] = "none"]
    /\ QueueFrame

\* a second passes
Tick ==
    /\ \E m \in MsgIds : messages.message[m] # NotEnqueued /\ messages.message[m].scheduled_at > 0
    /\ messages' = [messages EXCEPT !.message =
            [m \in MsgIds |->
                IF messages.message[m] # NotEnqueued /\ messages.message[m].scheduled_at > 0
                THEN [messages.message[m] EXCEPT !.scheduled_at = @ - 1]
                ELSE messages.message[m]]]
    /\ QueueFrame

NextQueue ==
    \/ \E m \in MsgIds, priority \in 1..2, max_retries \in 0..MaxRetry,
          delay_seconds \in 0..1, payload \in Payloads :
          enqueue_message(m, priority, max_retries, delay_seconds, payload)
    \/ _dequeue_message
    \/ \E m \in MsgIds : StartProcessing(m)
    \/ \E m \in MsgIds : HandlerReturns(m)
    \/ Tick

\* the processor loop runs as long as the manager does, every handler call
\* returns, and time passes
SpecQueue ==
    /\ InitQueue /\ [][NextQueue]_vars
    /\ WF_vars(_dequeue_message) /\ WF_vars(Tick)
    /\ \A m \in MsgIds : WF_vars(StartProcessing(m)) /\ WF_vars(HandlerReturns(m))

\* ================================================================ claims
Steps(e) == ex[e].step_executions

Returned(e) == task[e].pc = "done"

\* the step has been attempted: it left PENDING, has a start time or an agent call
Attempted(e, i) ==
    Steps(e)[i].status # PENDING \/ Steps(e)[i].start_time # 0 \/ calls[e][i] > 0

\* C1: a step is RUNNING, or has been attempted or sent to an agent, only when
\* every id of its depends_on is a step in a terminal status
C1_DependenciesTerminalFirst ==
    \A e \in execs : \A i \in DOMAIN Steps(e) :
        Attempted(e, i) =>
            \A d \in wf.steps[i].depends_on :
                d \in DOMAIN Steps(e) /\ Steps(e)[d].status \in TerminalStatus

C1_Witness ==
    \E e \in execs : \E i \in DOMAIN Steps(e) :
        /\ Steps(e)[i].status = RUNNING
        /\ wf.steps[i].depends_on # {}
        /\ \E d \in wf.steps[i].depends_on : Steps(e)[d].status = FAILED

AllowedTransition(old, new, step) ==
    \/ new.status = old.status
    \/ old.status = PENDING /\ new.status = RUNNING
    \/ old.status = RUNNING /\ new.status \in {COMPLETED, FAILED, SKIPPED}
    \/ old.status = FAILED /\ new.status = PENDING /\ old.retry_attempt < step.retry_count

\* C2: every change of a step's status is PENDING->RUNNING, RUNNING->COMPLETED,
\* RUNNING->FAILED, RUNNING->SKIPPED, or FAILED->PENDING with retries left
C2_OnlyAllowedTransitions ==
    [][\A e \in execs : \A i \in DOMAIN Steps(e) :
           i \in DOMAIN ex'[e].step_executions =>
               AllowedTransition(Steps(e)[i], ex'[e].step_executions[i], wf.steps[i])]_vars

C3_Bounded ==
    \A e \in execs : \A i \in DOMAIN Steps(e) :
        /\ Steps(e)[i].retry_attempt >= 0
        /\ Steps(e)[i].retry_attempt <= wf.steps[i].retry_count

C3_Step ==
    \A e \in execs : \A i \in DOMAIN ex'[e].step_executions :
        IF i \in DOMAIN Steps(e)
        THEN ex'[e].step_executions[i].retry_attempt =
                 Steps(e)[i].retry_attempt +
                 (IF Steps(e)[i].status = FAILED /\ ex'[e].step_executions[i].status = PENDING
                  THEN 1 ELSE 0)
        ELSE ex'[e].step_executions[i].retry_attempt = 0

\* C3: retry_attempt starts at 0, changes only by +1 and exactly when a failed
\* step is put back to PENDING, and never exceeds the step's retry_count
C3_RetryAttemptCounts == []C3_Bounded /\ [][C3_Step]_vars

C3_Witness ==
    \E e \in execs : \E i \in DOMAIN Steps(e) :
        /\ Steps(e)[i].retry_attempt = wf.steps[i].retry_count
        /\ Steps(e)[i].retry_attempt >= 1
        /\ Steps(e)[i].status = FAILED

\* a definition of one step with no dependency and no condition
SingleStep == Len(wf.steps) = 1 /\ wf.steps[1].depends_on = {} /\ wf.steps[1].condition = "none"

\* no registry failure interrupted the run and no agent call of the step succeeded
OnlyAgentFailures(e) ==
    /\ ex[e].error_message.kind # "not_found"
    /\ Steps(e) # <<>>
    /\ \A i \in DOMAIN Steps(e) : Steps(e)[i].agent_id = "none"

\* C4: a single step whose agent calls all fail is called retry_count + 1 times
\* and ends FAILED, and so does the workflow
C4_AlwaysFailingStep ==
    \A e \in execs :
        (Returned(e) /\ SingleStep /\ OnlyAgentFailures(e)) =>
            /\ calls[e][1] = wf.steps[1].retry_count + 1
            /\ Steps(e)[1].status = FAILED
            /\ ex[e].status = FAILED

NoDependencies == \A i \in DOMAIN wf.steps : wf.steps[i].depends_on = {}

\* C5: a run that ends FAILED without any exception and without any dependency
\* to wait for has a step that is FAILED with its retries exhausted
C5_FailedOnlyWhenExhausted ==
    \A e \in execs :
        (Returned(e) /\ ex[e].status = FAILED /\ NoDependencies
            /\ ex[e].error_message.kind # "not_found") =>
            \E i \in DOMAIN Steps(e) :
                /\ Steps(e)[i].status = FAILED
                /\ Steps(e)[i].retry_attempt >= wf.steps[i].retry_count

\* the scheduler has seen the outcome of the step it last executed
Scheduled(e) == task[e].pc \notin {"retry", "step_except", "after_step"}

Exhausted(e, i) ==
    Steps(e)[i].status = FAILED /\ Steps(e)[i].retry_attempt >= wf.steps[i].retry_count

C6_Escalated ==
    \A e \in execs : \A i \in DOMAIN Steps(e) :
        (Exhausted(e, i) /\ Scheduled(e)) =>
            /\ ex[e].status = FAILED
            /\ ex[e].error_message = [kind |-> "step_failed", step |-> i]
            /\ task[e].pc \in {"endpass", "finalize", "done"}

C6_NoLaterAttempt ==
    \A e \in execs :
        ex[e].error_message.kind = "step_failed" =>
            /\ ex'[e].step_executions = ex[e].step_executions
            /\ calls'[e] = calls[e]
            /\ ex'[e].status = FAILED
            /\ ex'[e].error_message = ex[e].error_message

\* C6: once a step is FAILED with its retries exhausted the workflow is FAILED
\* with an error naming that step, the scheduler leaves its loops, and from then
\* on no step changes and no agent call is made
C6_ExhaustedStepEndsWorkflow == []C6_Escalated /\ [][C6_NoLaterAttempt]_vars

C6_Witness ==
    \E e \in execs :
        /\ Returned(e)
        /\ Len(Steps(e)) = 2
        /\ Exhausted(e, 1)
        /\ Steps(e)[2].status = PENDING
        /\ Steps(e)[2].start_time = 0
        /\ wf.steps[2].depends_on = {}

\* C7: a run that returned COMPLETED has one StepExecution per step, each in a
\* terminal status
C7_CompletedMeansAllTerminal ==
    \A e \in execs :
        (Returned(e) /\ ex[e].status = COMPLETED) =>
            /\ DOMAIN Steps(e) = StepIds(wf)
            /\ \A i \in DOMAIN Steps(e) : Steps(e)[i].status \in TerminalStatus

C7_Witness ==
    \E e \in execs :
        /\ Returned(e) /\ ex[e].status = COMPLETED
        /\ Len(Steps(e)) = 2
        /\ Steps(e)[1].retry_attempt > 0
        /\ Steps(e)[2].status = SKIPPED

\* C8: after execute_workflow returned, step_executions holds exactly the step
\* ids of the definition, each once and in order
C8_StepExecutionsMatchDefinition ==
    \A e \in execs :
        Returned(e) =>
            /\ DOMAIN Steps(e) = StepIds(wf)
            /\ \A i \in DOMAIN Steps(e) : Steps(e)[i].step_id = i

\* the retained list is the tail of everything created for the execution
RetainedAreMostRecent(e) ==
    LET kept == checkpoints[e]
        all == created[e]
    IN /\ Len(kept) <= 10
       /\ Len(kept) = (IF Len(all) <= 10 THEN Len(all) ELSE 10)
       /\ \A k \in 1..Len(kept) : kept[k] = all[Len(all) - Len(kept) + k]
       /\ \A k \in 1..(Len(kept) - 1) : kept[k].checkpoint_id < kept[k + 1].checkpoint_id

C9_Retained == \A e \in ExecIds : RetainedAreMostRecent(e)

C9_OthersUntouched ==
    \A e \in ExecIds :
        created'[e] = created[e] => checkpoints'[e] = checkpoints[e]

\* C9: each execution's checkpoint list has at most 10 entries, in creation
\* order, and they are the most recently created ones of that execution; a
\* creation for one execution leaves every other list as it was
C9_LastTenPerExecution == []C9_Retained /\ [][C9_OthersUntouched]_vars

C9_Witness ==
    \E e \in ExecIds : \E o \in ExecIds \ {e} :
        /\ Len(created[e]) > 10
        /\ Len(checkpoints[e]) = 10
        /\ checkpoints[e][1].checkpoint_id > created[e][1].checkpoint_id
        /\ checkpoints[o] # <<>>

\* right after a successful create_checkpoint, before the task changes anything
JustCheckpointed(e) ==
    /\ created[e] # <<>>
    /\ \/ task[e].pc \in {"init", "set_running"}
       \/ /\ task[e].pc = "after_step"
          /\ created[e][Len(created[e])].checkpoint_type = "step_complete"
          /\ created[e][Len(created[e])].step_id = task[e].cur
          /\ CurExec(e).status = COMPLETED

\* C10: the checkpoint just created holds the context of the run and the status
\* of every step of the run as they are at that instant
C10_SnapshotIsCurrent ==
    \A e \in execs :
        JustCheckpointed(e) =>
            LET cp == created[e][Len(created[e])] IN
                /\ cp.context_snapshot = ex[e].context
                /\ DOMAIN cp.step_states = DOMAIN Steps(e)
                /\ \A i \in DOMAIN Steps(e) : cp.step_states[i] = Steps(e)[i].status

\* the step made in this transition is a call of op for execution e
Called(op, e) == ret = NoCall /\ ret'.op = op /\ ret'.id = e

\* the status the run held for the step of a step checkpoint at the instant the
\* checkpoint was taken: a step_start checkpoint is taken while its step is
\* PENDING, a step_complete checkpoint right after its step became COMPLETED
StatusWhenTaken(cp) == IF cp.checkpoint_type = "step_start" THEN PENDING ELSE COMPLETED

C11_Restores(e) ==
    LET cp == checkpoints[e][CHOOSE k \in FindCheckpoint(e, ret'.arg) : TRUE] IN
        /\ store'[e] # <<>>
        /\ store'[e][1].context = Serialize(cp.context_snapshot, heap)
        /\ cp.checkpoint_type \in {"step_start", "step_complete"} =>
               /\ cp.step_id \in DOMAIN store'[e][1].step_executions
               /\ store'[e][1].step_executions[cp.step_id].status = StatusWhenTaken(cp)

\* C11: a rollback to a retained checkpoint that answers True and writes the
\* stored execution leaves it with the context of the snapshot and with every
\* step in the status it had when the checkpoint was taken
C11_RollbackRestores ==
    [][\A e \in execs :
           (/\ Called("rollback_to_checkpoint", e)
            /\ FindCheckpoint(e, ret'.arg) # {}
            /\ ret'.result
            /\ store'[e] # store[e]) => C11_Restores(e)]_vars

\* what a checkpoint holds, nested dicts written out
CheckpointContent(cp, h) == <<Serialize(cp.context_snapshot, h), cp.step_states>>

\* C12: a checkpoint that stays retained holds the same context snapshot, nested
\* dicts included, and the same step states after every step of the program
C12_CheckpointsNeverChange ==
    [][\A e \in execs :
           \A k \in DOMAIN checkpoints[e] : \A j \in DOMAIN checkpoints'[e] :
               checkpoints[e][k].checkpoint_id = checkpoints'[e][j].checkpoint_id =>
                   CheckpointContent(checkpoints'[e][j], heap') =
                       CheckpointContent(checkpoints[e][k], heap)]_vars

\* a retained snapshot holds a nested dict, the run has since written into the
\* dict of its own context, and a rollback to the checkpoint has answered True
C12_Witness ==
    \E e \in execs : \E k \in DOMAIN checkpoints[e] :
        /\ IsRef(checkpoints[e][k].context_snapshot["out"], heap)
        /\ IsRef(ex[e].context["out"], heap)
        /\ Serialize(checkpoints[e][k].context_snapshot, heap) # Serialize(ex[e].context, heap)
        /\ ret.op = "rollback_to_checkpoint" /\ ret.result
        /\ ret.arg = checkpoints[e][k].checkpoint_id

\* everything but the answer and the paused set stays as it is
OnlyPausedSetMayChange ==
    UNCHANGED <<wf, pure, execs, agents, messages, store, ex, task, running_executions,
                checkpoints, nextCp, created, calls, now, heap>>

C13_Pause(e) ==
    Called("pause_workflow", e) =>
        /\ ret'.result = (e \in running_executions)
        /\ paused_executions' = IF e \in running_executions
                                THEN paused_executions \cup {e} ELSE paused_executions
        /\ OnlyPausedSetMayChange

C13_Resume(e) ==
    Called("resume_workflow", e) =>
        /\ ret'.result = (e \in paused_executions)
        /\ paused_executions' = IF e \in paused_executions
                                THEN paused_executions \ {e} ELSE paused_executions
        /\ OnlyPausedSetMayChange

\* C13: pause_workflow answers True and adds the id to the paused set exactly
\* when the id is registered, resume_workflow answers True and removes the id
\* exactly when it is paused; a call that answers False changes nothing
C13_PauseResumeAnswers == [][\A e \in execs : C13_Pause(e) /\ C13_Resume(e)]_vars

\* pause has just answered True for one id while the other id is not registered
C13_Witness ==
    /\ ret.op = "pause_workflow" /\ ret.result
    /\ ret.id \in paused_executions
    /\ \E o \in execs \ {ret.id} : o \notin running_executions /\ o \notin paused_executions

\* C14: while the id of an execution is in the paused set none of its steps goes
\* from PENDING to RUNNING and no agent call is sent for it
C14_PausedStartsNothing ==
    [][\A e \in execs :
           e \in paused_executions =>
               /\ calls'[e] = calls[e]
               /\ \A i \in DOMAIN Steps(e) \cap DOMAIN ex'[e].step_executions :
                      ~(Steps(e)[i].status = PENDING
                            /\ ex'[e].step_executions[i].status = RUNNING)]_vars

\* a paused execution sleeps in front of a PENDING step, after an earlier step ran
C14_Witness ==
    \E e \in execs :
        /\ e \in paused_executions
        /\ task[e].pc = "paused_sleep"
        /\ CurExec(e).status = PENDING
        /\ \E i \in DOMAIN Steps(e) : Steps(e)[i].status = COMPLETED

\* the execution was registered once and is registered no more
Deregistered(e) == e \notin running_executions /\ task[e].pc \notin {"none", "new"}

C15_Cancel(e) ==
    Called("cancel_workflow_execution", e) =>
        /\ ret'.result = (e \in running_executions)
        /\ IF e \in running_executions
           THEN e \notin running_executions'
           ELSE UNCHANGED <<wf, pure, execs, agents, messages, store, ex, task,
                            running_executions, paused_executions, checkpoints, nextCp,
                            created, calls, now, heap>>

C15_NoFurtherAttempt(e) ==
    (Deregistered(e) /\ task[e].pc # "done") =>
        /\ calls'[e] = calls[e]
        /\ \A i \in DOMAIN Steps(e) :
               ex'[e].step_executions[i].status = RUNNING => Steps(e)[i].status = RUNNING

\* C15: cancel_workflow_execution answers True exactly when the id is
\* registered; the id is then registered no more and its task starts no step
\* and sends no agent call; a call that answers False changes nothing
C15_CancelStopsTheTask ==
    [][\A e \in execs : C15_Cancel(e) /\ C15_NoFurtherAttempt(e)]_vars

\* cancel has just answered True for an execution whose step waited for its agent
C15_Witness ==
    /\ ret.op = "cancel_workflow_execution" /\ ret.result
    /\ ret.id \notin running_executions
    /\ Steps(ret.id) # <<>>
    /\ Steps(ret.id)[1].status = RUNNING
    /\ calls[ret.id][1] = 1

\* the task has finished: it returned or it was cancelled
Finished(e) == task[e].pc \in {"done", "cancelled"}

\* C16: cleanup_completed_executions removes exactly the registered ids whose
\* task has finished and changes nothing else
C16_CleanupRemovesFinished ==
    [][(ret = NoCall /\ ret'.op = "cleanup_completed_executions") =>
           /\ running_executions' = {e \in running_executions : ~Finished(e)}
           /\ UNCHANGED <<wf, pure, execs, agents, messages, store, ex, task,
                          paused_executions, checkpoints, nextCp, created, calls, now,
                          heap>>]_vars

\* a cleanup has just removed a finished execution and kept a waiting one
C16_Witness ==
    /\ ret.op = "cleanup_completed_executions"
    /\ \E e \in execs : task[e].pc = "done" /\ e \notin running_executions
    /\ \E o \in running_executions : task[o].pc = "agent_call"

\* the top-level keys of a context
Keys(context) == {k \in CtxKeys : context[k] # Absent}

\* the context keeps its keys, and a key gets another value only from input_data
\* when the run begins or as the target of the output mapping
C17_Step ==
    \A e \in execs :
        /\ Keys(ex[e].context) \subseteq Keys(ex'[e].context)
        /\ \A k \in CtxKeys :
               ex'[e].context[k] # ex[e].context[k] =>
                   \/ k = "out" /\ task[e].pc = "agent_call"
                   \/ k \in Keys(ex[e].input_data) /\ task[e].pc = "init"

C17_InputKeysPresent ==
    \A e \in execs :
        (\E i \in DOMAIN Steps(e) : Attempted(e, i)) =>
            Keys(ex[e].input_data) \subseteq Keys(ex[e].context)

\* C17: during a run the context only gains keys or has keys overwritten, it
\* holds every key of input_data from the first step attempt on, and it is never
\* replaced as a whole
C17_ContextOnlyGrows == []C17_InputKeysPresent /\ [][C17_Step]_vars

\* a run that began with a context of its own has added the input and mapped an
\* output into the nested dict it had
C17_Witness ==
    \E e \in execs :
        /\ Keys(ex[e].context) = CtxKeys
        /\ ex[e].context["out"] = Ref(1)
        /\ heap[1] # "0"
        /\ \E i \in DOMAIN Steps(e) : Steps(e)[i].status = COMPLETED

\* the statuses of a record: the workflow status and the status of every step
Statuses(rec) ==
    <<rec.status, [i \in DOMAIN rec.step_executions |-> rec.step_executions[i].status]>>

\* C18: whenever the running task is suspended between two of its steps, the
\* stored record has the workflow status and the step statuses of the record the
\* task holds
C18_StoredFollowsRun ==
    \A e \in execs :
        task[e].pc \in {"paused_sleep", "agent_call", "backoff"} =>
            /\ store[e] # <<>>
            /\ Statuses(store[e][1]) = Statuses(ex[e])

RECURSIVE DependsOnPath(_, _, _)
\* step i depends on step j through at most n edges of depends_on
DependsOnPath(i, j, n) ==
    /\ n > 0
    /\ \/ j \in wf.steps[i].depends_on
       \/ \E k \in wf.steps[i].depends_on \cap StepIds(wf) : DependsOnPath(k, j, n - 1)

\* every dependency names a step and no step depends on itself
Acyclic ==
    \A i \in StepIds(wf) :
        /\ wf.steps[i].depends_on \subseteq StepIds(wf)
        /\ ~DependsOnPath(i, i, Len(wf.steps))

NoConditions == \A i \in StepIds(wf) : wf.steps[i].condition = "none"

\* no agent call of the run failed, and the registry refused no checkpoint of
\* the scheduler
EveryInvocationSucceeded(e) ==
    /\ ex[e].error_message.kind # "not_found"
    /\ \A i \in DOMAIN Steps(e) :
           Steps(e)[i].retry_attempt = 0 /\ Steps(e)[i].error_message \in {"none", "exception"}

\* C19: a run of an acyclic definition without conditions whose agent calls all
\* succeed ends COMPLETED with every step COMPLETED, and every step starts no
\* earlier than each of its dependencies ended
C19_HappyPathCompletes ==
    \A e \in execs :
        (Returned(e) /\ Acyclic /\ NoConditions /\ EveryInvocationSucceeded(e)) =>
            /\ ex[e].status = COMPLETED
            /\ DOMAIN Steps(e) = StepIds(wf)
            /\ \A i \in DOMAIN Steps(e) :
                   /\ Steps(e)[i].status = COMPLETED
                   /\ \A d \in wf.steps[i].depends_on :
                          Steps(e)[i].start_time >= Steps(e)[d].end_time

\* the task is about to evaluate the condition of its step, and the condition is
\* false of the context: the flag is not true, or "out" is not 0
ConditionIsFalse(e) ==
    /\ task[e].pc = "condition"
    /\ \/ CurStep(e).condition = FlagCondition /\ ex[e].context["flag"] # "True"
       \/ CurStep(e).condition = OutCondition /\ ex[e].context["out"] # "0"

\* C20 as stated: a SKIPPED step has its end time set, was never sent to an
\* agent and never had its input_data resolved
C20_SkippedNeverInvoked ==
    \A e \in execs : \A i \in DOMAIN Steps(e) :
        Steps(e)[i].status = SKIPPED =>
            /\ Steps(e)[i].end_time # 0
            /\ calls[e][i] = 0
            /\ Steps(e)[i].input_data = Absent

C20_SkippingAttempt(e) ==
    ConditionIsFalse(e) =>
        /\ ex'[e].step_executions[task[e].cur].status = SKIPPED
        /\ ex'[e].step_executions[task[e].cur].end_time # 0
        /\ ex'[e].step_executions[task[e].cur].input_data = CurExec(e).input_data
        /\ calls'[e] = calls[e]
        /\ ex'[e].context = ex[e].context

C20_SkippedStays(e) ==
    \A i \in DOMAIN Steps(e) :
        Steps(e)[i].status = SKIPPED =>
            /\ ex'[e].step_executions[i] = Steps(e)[i]
            /\ calls'[e][i] = calls[e][i]

C20_FirstAttempt ==
    \A e \in execs : \A i \in DOMAIN Steps(e) :
        (Steps(e)[i].status = SKIPPED /\ Steps(e)[i].retry_attempt = 0) =>
            /\ Steps(e)[i].end_time # 0
            /\ calls[e][i] = 0
            /\ Steps(e)[i].input_data = Absent

\* C20, amended: the attempt that finds the condition false ends the step SKIPPED
\* with its end time set, sends no agent call, resolves no input and leaves the
\* context as it is; the step stays as it is from then on; a step skipped on its
\* first attempt was never sent to an agent and has no input_data
C20_SkipDoesNothing ==
    []C20_FirstAttempt /\ [][\A e \in execs : C20_SkippingAttempt(e) /\ C20_SkippedStays(e)]_vars

\* a step was skipped on its first attempt after the other step had completed
C20_Witness ==
    \E e \in execs : \E i \in DOMAIN Steps(e) :
        /\ Steps(e)[i].status = SKIPPED
        /\ Steps(e)[i].retry_attempt = 0
        /\ calls[e][i] = 0
        /\ \E j \in DOMAIN Steps(e) : Steps(e)[j].status = COMPLETED

RECURSIVE EligibleWithin(_, _)
\* the steps that can become eligible in at most n scans, given that every step
\* that becomes eligible also becomes terminal
EligibleWithin(def, n) ==
    IF n = 0 THEN {}
    ELSE {i \in StepIds(def) : def.steps[i].depends_on \subseteq EligibleWithin(def, n - 1)}

\* the steps that can never become eligible: they wait, directly or not, for a
\* step of a cycle or for an id that names no step
Blocked(def) == StepIds(def) \ EligibleWithin(def, Len(def.steps))

\* the run ended for another reason: the registry refused a checkpoint, or a step
\* that was eligible failed with its retries exhausted
EndedByFailure(e) == ex[e].error_message.kind \in {"not_found", "step_failed"}

C21_EndsCircular ==
    \A e \in execs :
        (Returned(e) /\ Blocked(wf) # {} /\ ~EndedByFailure(e)) =>
            /\ ex[e].status = FAILED
            /\ ex[e].error_message = [kind |-> "circular", step |-> 0]

C21_BlockedNeverRuns ==
    \A e \in execs : \A i \in DOMAIN Steps(e) \cap Blocked(wf) :
        /\ Steps(e)[i].status = PENDING
        /\ Steps(e)[i].start_time = 0
        /\ calls[e][i] = 0

\* C21: a run of a definition with steps that can never become eligible ends
\* FAILED with the circular-dependency error, unless another failure ended it
\* before, and no such step ever leaves PENDING or is sent to an agent
C21_BlockedStepsFailTheRun == C21_EndsCircular /\ C21_BlockedNeverRuns

\* two steps waiting for each other: the run has ended with the circular error
C21_Witness ==
    \E e \in execs :
        /\ Returned(e)
        /\ Len(Steps(e)) = 2 /\ Blocked(wf) = {1, 2}
        /\ ex[e].error_message.kind = "circular"
        /\ ex[e].end_time # 0

\* the condition of the call after substitution, and its tokens
Substituted == strip(_substitute_variables(pure.text, pure.context))

Tokens == split(Substituted)

\* the condition is a simple one: it is not handed to _evaluate_complex_condition
Simple == ~IsComplex(Substituted)

\* the simple condition does not have exactly three tokens after substitution
Malformed == Simple /\ Len(Tokens) # 3

\* the condition names a ${variable} that the context does not have
ReferencesMissingVariable ==
    \E i \in VariableAt(pure.text) : \E j \in (i + 3)..Len(pure.text) :
        /\ Char(pure.text, j) = "}"
        /\ \A k \in (i + 2)..(j - 1) : Char(pure.text, k) # "}"
        /\ _resolve_dot_notation(SubSeq(pure.text, i + 2, j - 1), pure.context) = PyNone

UnknownOperator == Simple /\ Len(Tokens) = 3 /\ Tokens[2] \notin Operators

EvaluationRaises ==
    /\ Simple /\ Len(Tokens) = 3
    /\ ComparisonRaises(_resolve_mapping_value(Tokens[1], pure.context), Tokens[2],
                        _resolve_mapping_value(Tokens[3], pure.context))

\* C22: _evaluate_condition returns true whenever the condition is malformed,
\* names a missing variable, uses an unknown operator, or its evaluation raises
C22_FailOpen ==
    (/\ pure.fn = "_evaluate_condition" /\ pure.returned
     /\ Malformed \/ ReferencesMissingVariable \/ UnknownOperator \/ EvaluationRaises) =>
        Truthy(pure.value)

\* the call ended without a response the agent service produced
CallErrors == {"timeout", "http_status", "transport"}

\* the step of e made in this transition is the return of its agent call
AgentCallReturns(e) == task[e].pc = "agent_call" /\ task'[e].pc \notin {"agent_call", "cancelled"}

C23_Returns(e) ==
    AgentCallReturns(e) =>
        LET agent_response == task'[e].agent_response
            step_execution == ex'[e].step_executions[task[e].cur]
        IN /\ ~agent_response.raised
           /\ agent_response.outcome \in CallErrors =>
                  /\ ~agent_response.success
                  /\ agent_response.error_message # "none"
                  /\ step_execution.status = FAILED
                  /\ step_execution.error_message = agent_response.error_message
                  /\ task'[e].pc = "retry"
                  /\ ex'[e].status = RUNNING

\* the handler of the step runs only after a call that succeeded
C23_HandlerOnlyAfterSuccess ==
    \A e \in execs : task[e].pc = "step_except" => CurExec(e).status = COMPLETED

\* C23: _call_agent never raises; a call that times out, gets an error status or
\* fails in the transport returns success false with a message, and the step is
\* FAILED with that message and goes on to the retry decision while the workflow
\* stays RUNNING
C23_CallAgentNeverRaises ==
    []C23_HandlerOnlyAfterSuccess /\ [][\A e \in execs : C23_Returns(e)]_vars

\* a step that was retried after a failure has just had its call time out
C23_Witness ==
    \E e \in execs :
        /\ task[e].pc = "retry"
        /\ task[e].agent_response.outcome = "timeout"
        /\ CurExec(e).status = FAILED
        /\ CurExec(e).retry_attempt >= 1

\* the execution has a retained checkpoint with this id
Retained(e, cid) == \E k \in DOMAIN checkpoints[e] : checkpoints[e][k].checkpoint_id = cid

C24_Rollback(e) ==
    Called("rollback_to_checkpoint", e) =>
        /\ (checkpoints[e] = <<>> \/ ~Retained(e, ret'.arg) \/ store[e] = <<>>) => ~ret'.result
        /\ ~ret'.result =>
               UNCHANGED <<wf, execs, agents, messages, store, ex, task, running_executions,
                           paused_executions, checkpoints, nextCp, created, calls, now,
                           heap>>

\* C24: rollback_to_checkpoint answers False for an execution without
\* checkpoints, for a checkpoint id that is not retained and for an execution
\* that the store does not have; a call that answers False changes neither the
\* stored records nor the checkpoint lists nor anything else
C24_FailedRollbackChangesNothing == [][\A e \in execs : C24_Rollback(e)]_vars

\* a rollback to a checkpoint that was created and has been evicted since has
\* just answered False, with the execution stored
C24_Witness ==
    /\ ret.op = "rollback_to_checkpoint" /\ ~ret.result
    /\ ret.id \in execs
    /\ \E k \in DOMAIN created[ret.id] : created[ret.id][k].checkpoint_id = ret.arg
    /\ ~Retained(ret.id, ret.arg)
    /\ store[ret.id] # <<>>

DoneFor(e) == TaskStep(e) \/ AnyCall(e)

Untouched(o) ==
    /\ ex'[o] = ex[o]
    /\ task'[o] = task[o]
    /\ checkpoints'[o] = checkpoints[o]
    /\ (o \in paused_executions') = (o \in paused_executions)

C26_Step == \A e \in ExecIds : DoneFor(e) => \A o \in ExecIds \ {e} : Untouched(o)

C26_Isolated == [][C26_Step]_vars

\* both executions are under way: one waits for its agent with a RUNNING step,
\* the other is paused, and each has checkpoints of its own
C26_Witness ==
    /\ {"e1", "e2"} \subseteq running_executions
    /\ task["e1"].pc = "agent_call"
    /\ ex["e1"].step_executions[1].status = RUNNING
    /\ "e2" \in paused_executions /\ "e1" \notin paused_executions
    /\ task["e2"].pc = "paused_sleep"
    /\ Len(checkpoints["e1"]) >= 2 /\ Len(checkpoints["e2"]) >= 1

\* C27: _resolve_mapping_value returns what the first matching rule of the fixed
\* order gives: ${...} substitution (a string), quoted literal, all-digit integer,
\* float, true/false/null/none, JSON object or array, dot path, context key,
\* the text itself.  So "5" is the integer 5 (even when "5" is a context key),
\* the quoted "5" is the string "5", "${x}" with x = 5 is the string "5", a bare
\* name that is a key gives the key's value and any other bare name is returned
\* unchanged.
Quoted(raw, q) == startswith(raw, q) /\ endswith(raw, q)

Unquoted(raw) == SubSeq(raw, 2, Len(raw) - 1)

BareName(raw) ==
    /\ ~Contains(raw, "${") /\ ~Quoted(raw, "\"") /\ ~Quoted(raw, "'")
    /\ ~isdigit(raw) /\ ~IsFloatText(raw)
    /\ lower(raw) \notin {"true", "false", "null", "none"}
    /\ raw \notin DOMAIN JsonValue
    /\ ~Contains(raw, ".")

FirstRule(raw, context, v) ==
    CASE Contains(raw, "${") -> v.type = "str"
      [] OTHER ->
    CASE Quoted(raw, "\"") \/ Quoted(raw, "'") -> v = PyStr(Unquoted(raw))
      [] OTHER ->
    CASE isdigit(raw) -> v.type = "int" /\ NatOf(v.text) = NatOf(raw)
      [] OTHER ->
    CASE IsFloatText(raw) -> v.type = "float"
      [] OTHER ->
    CASE lower(raw) \in {"true", "false"} -> v = PyBool(lower(raw) = "true")
      [] lower(raw) \in {"null", "none"} -> v = PyNone
      [] OTHER ->
    CASE raw \in DOMAIN JsonValue -> v.type \in {"dict", "list"}
      [] OTHER ->
    CASE Contains(raw, ".") -> v = _resolve_dot_notation(raw, context)
      [] OTHER ->
    CASE raw \in DOMAIN context -> v = context[raw]
      [] OTHER -> v = PyStr(raw)

Resolved == pure.fn = "_resolve_mapping_value" /\ pure.returned

C27_Examples ==
    Resolved =>
        /\ pure.text = "5" => pure.value = PyInt("5")
        /\ pure.text = "\"5\"" => pure.value = PyStr("5")
        /\ (pure.text = "${x}" /\ "x" \in DOMAIN pure.context /\ pure.context["x"] = PyInt("5"))
              => pure.value = PyStr("5")
        /\ (BareName(pure.text) /\ pure.text \in DOMAIN pure.context)
              => pure.value = pure.context[pure.text]
        /\ (BareName(pure.text) /\ pure.text \notin DOMAIN pure.context)
              => pure.value = PyStr(pure.text)

C27_FirstMatchingRule ==
    /\ Resolved => FirstRule(pure.text, pure.context, pure.value)
    /\ C27_Examples

\* "5" was resolved in a context that has the key "5": the integer rule came first
C27_Witness ==
    /\ Resolved
    /\ pure.text = "5" /\ "5" \in DOMAIN pure.context
    /\ pure.value = PyInt("5")

\* C28: an execution started through POST /workflows/{workflow_id}/execute that
\* is still running is cancelled by POST /executions/{execution_id}/cancel: when
\* the request finds the record (status 200), the task running the execution is
\* stopped and the stored status becomes CANCELLED.
StillRunning(e) ==
    /\ task[e].to_store
    /\ task[e].pc \in {"created", "paused_sleep", "agent_call", "backoff"}
    /\ store[e] # <<>> /\ store[e][1].status \in {PENDING, RUNNING}

CancelStops(e) ==
    (StillRunning(e) /\ cancel_execution(e) /\ ret'.arg = 200)
        => /\ ret'.result
           /\ task'[e].pc = "cancelled"
           /\ store'[e][1].status = CANCELLED

C28_CancelStopsRouteExecution == [][\A e \in ExecIds : CancelStops(e)]_vars

\* C29: provided every agent call returns and the execution (not cancelled) is
\* eventually left unpaused, execute_workflow returns; it makes at most
\* 2 * step_count scans, and on return the workflow status is COMPLETED or
\* FAILED and end_time is set.
Started(e) == task[e].pc = "created"

C29_OnReturn ==
    \A e \in ExecIds :
        /\ task[e].iteration <= 2 * Len(wf.steps)
        /\ Returned(e) => /\ ex[e].status \in {COMPLETED, FAILED}
                          /\ ex[e].end_time # 0

LeftUnpaused == <>[]("e1" \notin paused_executions)

C29_Terminates ==
    /\ []C29_OnReturn
    /\ LeftUnpaused => (Started("e1") ~> Returned("e1"))

\* C29 as stated: it is enough that every pause is eventually followed by a resume
EveryPauseResumed == []("e1" \in paused_executions => <>("e1" \notin paused_executions))

C29_TerminatesWhenResumed ==
    /\ []C29_OnReturn
    /\ EveryPauseResumed => (Started("e1") ~> Returned("e1"))

\* a run of two scans has returned COMPLETED with its end time
C29_Witness ==
    /\ Returned("e1")
    /\ task["e1"].iteration = 2
    /\ ex["e1"].status = COMPLETED
    /\ ex["e1"].end_time # 0

\* C30: within one execution at most one step is RUNNING at any time; the steps
\* attempted in one scan are attempted in definition order; and when a scan has
\* gone through the whole definition, every step whose dependencies were all
\* completed before the scan reached it (in an earlier scan, or earlier in this
\* one) and that was not completed before was attempted in this scan.
RunningSteps(e) ==
    {i \in DOMAIN ex[e].step_executions : ex[e].step_executions[i].status = RUNNING}

AttemptedInScan(e) == {task[e].attempted[k] : k \in DOMAIN task[e].attempted}

InDefinitionOrder(e) ==
    \A k \in DOMAIN task[e].attempted : \A l \in DOMAIN task[e].attempted :
        k < l => task[e].attempted[k] < task[e].attempted[l]

ScanComplete(e) == task[e].pc = "endpass" /\ task[e].idx > Len(wf.steps)

ReadyWhenReached(e, i) ==
    \A dep_id \in wf.steps[i].depends_on :
        /\ dep_id \in task[e].completed_steps
        /\ dep_id \in AttemptedInScan(e) => dep_id < i

C30_OneAtATimeInOrder ==
    \A e \in ExecIds :
        /\ Cardinality(RunningSteps(e)) <= 1
        /\ InDefinitionOrder(e)
        /\ ScanComplete(e) =>
              \A i \in StepIds(wf) :
                  ReadyWhenReached(e, i) => i \in task[e].completed_steps \cup AttemptedInScan(e)

\* a scan went through the definition and attempted two steps, the second made
\* eligible by the completion of the first in this same scan
C30_Witness ==
    /\ ScanComplete("e1")
    /\ Len(task["e1"].attempted) = 2
    /\ task["e1"].attempted[1] \in wf.steps[task["e1"].attempted[2]].depends_on
    /\ task["e1"].iteration = 1

\* C31: in the order of creation, the first checkpoint of an execution is of
\* kind workflow_start and exists before the workflow is RUNNING; a step becomes
\* RUNNING only right after a step_start checkpoint of its own, one for each
\* attempt (retries included); a step_complete checkpoint is created once for an
\* attempt that ends COMPLETED, after the output is in the context, and never
\* for an attempt that ends SKIPPED or FAILED.
CreatedOfKind(e, type, i) ==
    {k \in DOMAIN created[e] : /\ created[e][k].checkpoint_type = type
                               /\ created[e][k].step_id = i}

\* the attempts of step i that got as far as their step_start checkpoint
AttemptsStarted(e, i) ==
    ex[e].step_executions[i].retry_attempt +
        (IF \/ ex[e].step_executions[i].status # PENDING
            \/ task[e].cur = i /\ task[e].pc = "set_running"
         THEN 1 ELSE 0)

CompleteCheckpointDue(e, i) ==
    /\ ex[e].step_executions[i].status = COMPLETED
    /\ ~(task[e].cur = i /\ task[e].pc \in {"cp_complete", "step_except"})

C31_Counts ==
    \A e \in ExecIds :
        /\ created[e] # <<>> => created[e][1].checkpoint_type = "workflow_start"
        /\ ex[e].status = RUNNING => created[e] # <<>>
        /\ \A i \in DOMAIN ex[e].step_executions :
              /\ Cardinality(CreatedOfKind(e, "step_start", i)) = AttemptsStarted(e, i)
              /\ Cardinality(CreatedOfKind(e, "step_complete", i)) =
                     IF CompleteCheckpointDue(e, i) THEN 1 ELSE 0

BecomesRunning(e, i) ==
    /\ i \in DOMAIN ex[e].step_executions
    /\ ex[e].step_executions[i].status # RUNNING
    /\ ex'[e].step_executions[i].status = RUNNING

CreatesCheckpoint(e) == Len(created'[e]) = Len(created[e]) + 1

C31_Order ==
    \A e \in ExecIds :
        /\ \A i \in 1..MaxSteps :
              BecomesRunning(e, i) =>
                  /\ created[e] # <<>> /\ created'[e] = created[e]
                  /\ created[e][Len(created[e])].checkpoint_type = "step_start"
                  /\ created[e][Len(created[e])].step_id = i
        /\ (CreatesCheckpoint(e) /\
            created'[e][Len(created'[e])].checkpoint_type = "step_complete") =>
               LET i == created'[e][Len(created'[e])].step_id IN
                 /\ ex[e].step_executions[i].status = COMPLETED
                 /\ ex[e].step_executions[i].output_data # Absent
                 /\ ex[e].context[wf.steps[i].output_mapping] =
                        ex[e].step_executions[i].output_data

C31_CheckpointOrder == []C31_Counts /\ [][C31_Order]_vars

\* a step failed, was retried and completed: two step_start checkpoints and one
\* step_complete checkpoint for it
C31_Witness ==
    /\ Returned("e1")
    /\ ex["e1"].step_executions # <<>>
    /\ ex["e1"].step_executions[1].status = COMPLETED
    /\ ex["e1"].step_executions[1].retry_attempt = 1
    /\ Cardinality(CreatedOfKind("e1", "step_start", 1)) = 2
    /\ Cardinality(CreatedOfKind("e1", "step_complete", 1)) = 1

\* C32: after the output of a successful invocation is projected, looking up the
\* path of an output_mapping entry whose key is in the output yields
\* output[key], provided no later entry with a key of the output writes to the
\* same path, above it or below it; dicts are created along dot paths, replacing
\* values that are no dicts; entries whose key is not in the output change
\* nothing.
Projected == pure.fn = "_map_step_output" /\ pure.returned

LookUp(path) == Descend(SplitOn(path, "."), pure.value)

Present(k) == pure.output_mapping[k][1] \in DOMAIN pure.step_output

Overlap(p, q) == p = q \/ startswith(p, q \o ".") \/ startswith(q, p \o ".")

WrittenAgain(k) ==
    \E l \in DOMAIN pure.output_mapping :
        l > k /\ Present(l) /\ Overlap(pure.output_mapping[k][2], pure.output_mapping[l][2])

PresentEntries ==
    SelectSeq(pure.output_mapping, LAMBDA m : m[1] \in DOMAIN pure.step_output)

AbsentChangeNothing ==
    /\ pure.value.items = _map_step_output(PresentEntries, pure.step_output, pure.context)
    /\ PresentEntries = <<>> => pure.value.items = pure.context

C32_OutputProjected ==
    Projected =>
        /\ \A k \in DOMAIN pure.output_mapping :
              (Present(k) /\ ~WrittenAgain(k)) =>
                  LookUp(pure.output_mapping[k][2]) = pure.step_output[pure.output_mapping[k][1]]
        /\ AbsentChangeNothing

\* C32 as stated: every entry whose key is in the output can be looked up
C32_EveryEntryProjected ==
    Projected =>
        /\ \A k \in DOMAIN pure.output_mapping :
              Present(k) =>
                  LookUp(pure.output_mapping[k][2]) = pure.step_output[pure.output_mapping[k][1]]
        /\ AbsentChangeNothing

\* "a" went to "x.y" where x held a string, and "c", not in the output, to "w"
C32_Witness ==
    /\ Projected
    /\ pure.output_mapping = <<(<<"a", "x.y">>), (<<"c", "w">>)>>
    /\ "a" \in DOMAIN pure.step_output
    /\ pure.context = [k \in {"x"} |-> PyStr("old")]
    /\ pure.value.items["x"].type = "dict"
    /\ pure.value.items["x"].items["y"] = pure.step_output["a"]
    /\ DOMAIN pure.value.items = {"x"}

\* C33: a successful rollback_to_checkpoint runs the rollback handling of a step
\* exactly once when the stored status of the step is COMPLETED and the
\* checkpoint does not hold it as COMPLETED, and not at all for any other step.
RollsBack(e) ==
    /\ ret = NoCall
    /\ ret'.op = "rollback_to_checkpoint" /\ ret'.id = e /\ ret'.result
    /\ store[e] # <<>>

RolledBackTo(e) ==
    checkpoints[e][CHOOSE k \in DOMAIN checkpoints[e] :
                       checkpoints[e][k].checkpoint_id = ret'.arg]

TimesHandled(i) == Cardinality({k \in DOMAIN ret'.handled : ret'.handled[k] = i})

MovedOutOfCompleted(e, i) ==
    /\ store[e][1].step_executions[i].status = COMPLETED
    /\ ~(/\ i \in DOMAIN RolledBackTo(e).step_states
         /\ RolledBackTo(e).step_states[i] = COMPLETED)

C33_Step ==
    \A e \in ExecIds :
        RollsBack(e) =>
            \A i \in DOMAIN store[e][1].step_executions :
                TimesHandled(i) = IF MovedOutOfCompleted(e, i) THEN 1 ELSE 0

C33_HandlerRunsForStepsLeavingCompleted == [][C33_Step]_vars

\* C34: after a rollback_to_checkpoint that returned True the stored workflow
\* status is RUNNING whatever it was; a step moved to PENDING has lost its
\* start_time, end_time, output_data and error_message and kept its
\* retry_attempt, input_data and agent_id; a step restored to another status has
\* kept every field but the status; a step the checkpoint does not know is as
\* it was.
StepFrame(old, new, cp) ==
    IF old.step_id \notin DOMAIN cp.step_states THEN new = old
    ELSE IF cp.step_states[old.step_id] = PENDING
    THEN new = [old EXCEPT !.status = PENDING, !.start_time = 0, !.end_time = 0,
                           !.output_data = Absent, !.error_message = "none"]
    ELSE new = [old EXCEPT !.status = cp.step_states[old.step_id]]

StoredFrame(e) ==
    /\ store'[e] # <<>>
    /\ store'[e][1].status = RUNNING
    /\ DOMAIN store'[e][1].step_executions = DOMAIN store[e][1].step_executions
    /\ \A i \in DOMAIN store[e][1].step_executions :
          StepFrame(store[e][1].step_executions[i], store'[e][1].step_executions[i],
                    RolledBackTo(e))

C34_RollbackFrame == [][\A e \in ExecIds : RollsBack(e) => StoredFrame(e)]_vars

\* the same for the rollbacks whose record the store accepted
C34_FrameWhenStored ==
    [][\A e \in ExecIds : (RollsBack(e) /\ store'[e] # store[e]) => StoredFrame(e)]_vars

\* a rollback has moved a step with a retry behind it to PENDING and a FAILED
\* execution to RUNNING
C34_Reached ==
    /\ ret.op = "rollback_to_checkpoint" /\ ret.result
    /\ store["e1"] # <<>>
    /\ store["e1"][1].status = RUNNING
    /\ ex["e1"].status = FAILED
    /\ store["e1"][1].step_executions # <<>>
    /\ store["e1"][1].step_executions[1].status = PENDING
    /\ store["e1"][1].step_executions[1].retry_attempt = 1
    /\ store["e1"][1].step_executions[1].start_time = 0
    /\ ex["e1"].step_executions[1].start_time # 0

\* C35: every id in the paused set is also a key of the running-executions
\* map, whatever start, pause, resume, cancel and cleanup calls and task steps
\* came before.
C35_PausedAreRunning == paused_executions \subseteq running_executions

\* C36: whenever execute_workflow has returned with workflow status COMPLETED,
\* no step is FAILED: every step is COMPLETED or SKIPPED.
C36_CompletedHasNoFailedStep ==
    \A e \in ExecIds :
        (Returned(e) /\ ex[e].status = COMPLETED)
            => \A i \in DOMAIN Steps(e) : Steps(e)[i].status \in {COMPLETED, SKIPPED}

\* C37: the engine never assigns workflow status CANCELLED.  When
\* cancel_workflow_execution stops a task at the pause wait, during an agent call
\* or during a retry backoff, the record the task holds keeps workflow status
\* RUNNING with end_time unset and every step keeps its status (the step of an
\* agent call in flight stays RUNNING); the record is left as it was, and stays
\* so afterwards.
StopsTask(e) ==
    /\ task[e].pc \in {"paused_sleep", "agent_call", "backoff"}
    /\ Called("cancel_workflow_execution", e) /\ ret'.result
    /\ task'[e].pc = "cancelled"

NeverCancelledByEngine == \A e \in ExecIds : ex[e].status # CANCELLED

LeftRunning(e) ==
    /\ ex'[e].status = RUNNING /\ ex[e].status = RUNNING
    /\ ex'[e].end_time = 0
    /\ Statuses(ex'[e]) = Statuses(ex[e])
    /\ task[e].pc = "agent_call" => ex'[e].step_executions[task[e].cur].status = RUNNING

StaysAsCancelled(e) == task[e].pc = "cancelled" => ex'[e] = ex[e]

C37_Literal(e) == StopsTask(e) => (LeftRunning(e) /\ ex'[e] = ex[e])

C37_RecordLeftAsItWas ==
    []NeverCancelledByEngine
        /\ [][\A e \in ExecIds : C37_Literal(e) /\ StaysAsCancelled(e)]_vars

\* C37 without the end_time of the step in flight: stopped during an agent call
\* or a backoff, the finally of the step attempt still records the step's
\* end_time; nothing else of the record changes.
WithoutStepEndTimes(rec) ==
    [rec EXCEPT !.step_executions =
        [i \in DOMAIN rec.step_executions |-> [rec.step_executions[i] EXCEPT !.end_time = 0]]]

EndTimeOfStepInFlight(e) ==
    \A i \in DOMAIN ex[e].step_executions :
        IF task[e].pc \in {"agent_call", "backoff"} /\ i = task[e].cur
        THEN ex'[e].step_executions[i].end_time # 0
        ELSE ex'[e].step_executions[i].end_time = ex[e].step_executions[i].end_time

C37_Amended(e) ==
    StopsTask(e) => /\ LeftRunning(e)
                    /\ WithoutStepEndTimes(ex'[e]) = WithoutStepEndTimes(ex[e])
                    /\ EndTimeOfStepInFlight(e)

C37_CancelLeavesRunning ==
    []NeverCancelledByEngine
        /\ [][\A e \in ExecIds : C37_Amended(e) /\ StaysAsCancelled(e)]_vars

\* a task has been stopped during an agent call: its step is RUNNING with an
\* end_time, the workflow RUNNING without one
C37_Witness ==
    /\ task["e1"].pc = "cancelled"
    /\ ex["e1"].status = RUNNING /\ ex["e1"].end_time = 0
    /\ ex["e1"].step_executions # <<>>
    /\ ex["e1"].step_executions[1].status = RUNNING
    /\ ex["e1"].step_executions[1].end_time # 0

\* C38: rollback_to_checkpoint acts on the stored record only: the record held
\* by the task of the execution (its context and step statuses included), the
\* running-executions map, the paused set and every task are as they were, no
\* agent is called, and a task that has returned stays returned with its record
\* and its agent calls as they are: a step reset to PENDING in the store is not
\* attempted again.
RollbackCalled(e) == ret = NoCall /\ ret'.op = "rollback_to_checkpoint" /\ ret'.id = e

OnlyTheStore(e) ==
    RollbackCalled(e) => /\ ex' = ex
                         /\ task' = task
                         /\ running_executions' = running_executions
                         /\ paused_executions' = paused_executions
                         /\ calls' = calls

NotResumed(e) ==
    Returned(e) => /\ Returned(e)'
                   /\ ex'[e] = ex[e]
                   /\ calls'[e] = calls[e]

C38_RollbackOnlyStored == [][\A e \in ExecIds : OnlyTheStore(e) /\ NotResumed(e)]_vars

\* a rollback has reset a step to PENDING in the store that the returned task
\* holds as attempted, and the answer has been read
C38_Witness ==
    /\ Returned("e1") /\ ret = NoCall
    /\ store["e1"] # <<>> /\ store["e1"][1].status = RUNNING
    /\ store["e1"][1].step_executions # <<>>
    /\ store["e1"][1].step_executions[1].status = PENDING
    /\ store["e1"][1].step_executions[1].start_time = 0
    /\ ex["e1"].step_executions[1].start_time # 0
    /\ calls["e1"][1] > 0
    /\ ex["e1"].status # RUNNING

\* C39: in the agent service the current_load the registry holds for the agent
\* is the number of execute_task requests in flight on it, under every
\* interleaving, and is back at its initial value once all have finished.
InFlight == {r \in Requests : agents.request[r].pc = "executing"}

AllFinished == \A r \in Requests : agents.request[r].pc \in {"done", "unavailable"}

C39_LoadCountsRequestsInFlight ==
    /\ agents.current_load = Cardinality(InFlight)
    /\ AllFinished => agents.current_load = 0

\* C40: in the queue manager a message whose handler fails on every attempt is
\* handed to the handler exactly max_retries + 1 times and then ends with status
\* DEAD_LETTER, in the dead letter queue and in neither the pending queue nor
\* the processing set; a message is in the dead letter queue only with a
\* retry_count above its max_retries; a message whose handler succeeds ends
\* COMPLETED and is never in the dead letter queue.
Enqueued(m) == messages.message[m] # NotEnqueued

FailsEveryAttempt(m) == messages.message[m].payload > messages.message[m].max_retries

DeadLettered(m) ==
    /\ messages.message[m].status = DEAD_LETTER
    /\ m \in messages.dlq /\ m \notin messages.queue /\ m \notin messages.processing
    /\ messages.handled[m] = messages.message[m].max_retries + 1

Completed(m) ==
    /\ messages.message[m].status = COMPLETED
    /\ m \notin messages.dlq /\ m \notin messages.queue /\ m \notin messages.processing

C40_Safe ==
    \A m \in MsgIds : Enqueued(m) =>
        /\ messages.handled[m] <= messages.message[m].max_retries + 1
        /\ messages.message[m].status = DEAD_LETTER => DeadLettered(m)
        /\ m \in messages.dlq => /\ messages.message[m].retry_count
                                       > messages.message[m].max_retries
                                 /\ FailsEveryAttempt(m)
        /\ FailsEveryAttempt(m) => messages.message[m].status # COMPLETED
        /\ ~FailsEveryAttempt(m) => m \notin messages.dlq

C40_Ended(m) ==
    (Enqueued(m) /\ messages.message[m].status \in {DEAD_LETTER, COMPLETED})
        => /\ messages'.message[m] = messages.message[m]
           /\ messages'.handled[m] = messages.handled[m]

C40_Ends(m) ==
    /\ (Enqueued(m) /\ FailsEveryAttempt(m)) ~> DeadLettered(m)
    /\ (Enqueued(m) /\ ~FailsEveryAttempt(m)) ~> Completed(m)

====
